---- MODULE Spec2Model ----
(***************************************************************************)
(* State-machine model of mcserverlib: the managed server process          *)
(* (process.py), the install orchestrator and start-command validation     *)
(* (manager.py), the download transport (http.py) and the loader           *)
(* providers (providers/*.py).                                             *)
(*                                                                         *)
(* Each subsystem has its own specification over its own variables; the    *)
(* variables of the other subsystems stay at their initial values.         *)
(***************************************************************************)
EXTENDS Integers, Sequences, FiniteSets, TLC

VARIABLES
    \* ---- ServerProcess: the OS process and one caller of stop/send_command
    returncode,     \* Popen.returncode as poll() reports it: None while alive
    stdin,          \* the strings delivered to the process's input stream
    signals,        \* the signals delivered to the OS process, in order
    pc,             \* position of the caller inside ServerProcess.stop
    trace,          \* what the current/last stop call did to the process
    stopEntry,      \* "none" | "exited" | "running": what stop found on entry
    stopResult,     \* outcome of the last stop call
    sendResult,     \* outcome of the last send_command call
    stopCalls,      \* number of stop calls made
    sendCalls,      \* number of send_command calls made
    \* ---- ServerProcess: the log buffer, its reader thread and its readers
    recent_lines,   \* self._recent_lines, a deque(maxlen=400)
    linesRead,      \* lines the reader thread has taken from the output stream
    reader,         \* "running" | "finished" | "crashed": the reader thread
    snapshot,       \* the list the last recent_lines call returned, or None
    \* ---- HttpClient.download: one destination path and its directory
    dlPc,           \* position inside download
    dlExpected,     \* the expected_hash argument ("" and None are both <<>>)
    dest,           \* content of the destination path, or None if absent
    destBefore,     \* content of the destination path when download was called
    tmpFile,        \* content of the temporary file, or None if there is none
    received,       \* received_bytes
    dlExc,          \* the exception in flight, "" if none
    dlResult,       \* outcome of the last download call
    dlCalls,        \* number of download calls made
    \* ---- ServerManager.start: one instance directory on one host
    osName,         \* os.name of the host: "nt" or "posix"
    fsLink,         \* TRUE when <instance>/link is a symlink to /outside
    manifestFile,   \* the manifest in the instance directory, None if absent
    startArgs,      \* the java_path, xms, xmx and jvm_args of the start call
    startResult,    \* outcome of the start call
    spawned,         \* the argv of the process start spawned, or None
    \* ---- ServerManager.install: one install call and the instance directory
    instPc,         \* position of the call inside install and its provider
    request,        \* the InstallRequest of the call, None before the call
    eulaFile,       \* eula.txt: None if absent, else the accepted flag
    propsFile,      \* server.properties: None if absent, else its keys
    artifact,       \* TRUE when the loader's server artifact is in place
    before,         \* the manifest, eula and properties files at the call
    java_required,  \* the provider's java_required, None if unknown
    javaLookup,     \* outcome of minecraft_java_requirement, "none" if not run
    instStage,      \* the step that raised, "none" if no step did
    jarCheck,       \* "verified" | "unverified": the digest check of the
                    \* server.jar the provider downloaded, "none" without one
    instResult,     \* outcome of the install call
    \* ---- one call of a function that touches no state of the library
    callArgs,       \* the arguments of the call, None before the arguments exist
    callResult,     \* what the call returned or raised
    callEffects,    \* what the call did to the outside world, in order
    \* ---- LauncherApp: the window, its worker threads and its servers
    threads,        \* the worker threads that are alive: id, task, phase
    started,        \* the number of worker threads started so far
    worker,         \* _worker: the id of the thread started last, or None
    ui_queue,       \* _ui_queue: the events the workers have put, in order
    controls_busy,  \* _controls_busy
    buttons,        \* the state of the Start, Install, Stop and Refresh buttons
    server_process, \* _server_process: the pid of the held process, or None
    live,           \* the pids of the server processes that are alive
    status          \* the text of the status bar

procVars == <<returncode, stdin, signals, pc, trace, stopEntry, stopResult,
              sendResult, stopCalls, sendCalls>>

logVars == <<recent_lines, linesRead, reader, snapshot>>

dlVars == <<dlPc, dlExpected, dest, destBefore, tmpFile, received, dlExc,
            dlResult, dlCalls>>

startVars == <<osName, fsLink, manifestFile, startArgs, startResult, spawned>>

instVars == <<instPc, request, eulaFile, propsFile, artifact, before,
              java_required, javaLookup, instStage, jarCheck, instResult>>

callVars == <<callArgs, callResult, callEffects>>

guiVars == <<threads, started, worker, ui_queue, controls_busy, buttons,
             server_process, live, status>>

vars == <<procVars, logVars, dlVars, startVars, instVars, callVars, guiVars>>

-----------------------------------------------------------------------------
(* Bounds of the model.                                                    *)
MaxStops == 2       \* stop calls per behaviour
MaxSends == 1       \* send_command calls per behaviour
MaxTextLen == 2     \* characters in a send_command text
MaxLines == 402     \* output lines the child process prints
MaxDownloads == 2   \* download calls per behaviour
ChunkSize == 2      \* bytes one response.read returns at most
MaxHashLen == 1     \* hex digits in a supplied digest
MaxTemplateLen == 3 \* tokens in a start-command template

-----------------------------------------------------------------------------
(* Optional values: Python's None and a present value.                     *)
None == <<>>
Some(x) == <<x>>

(* Outcomes of a call: it returned a value or raised an exception.         *)
NoResult == [kind |-> "none", code |-> 0, exc |-> ""]
Return(code) == [kind |-> "return", code |-> code, exc |-> ""]
Raise(exc) == [kind |-> "raise", code |-> 0, exc |-> exc]

(* Outcomes of a call whose result is a value of any shape.                *)
NoCall == [kind |-> "none"]
Returned(value) == [kind |-> "return", value |-> value]
Raised(exc) == [kind |-> "raise", exc |-> exc]

RECURSIVE SeqsUpTo(_, _)
SeqsUpTo(S, n) ==
    IF n = 0 THEN {<<>>}
    ELSE LET shorter == SeqsUpTo(S, n - 1)
         IN  shorter \cup {Append(s, c) : s \in {t \in shorter : Len(t) = n - 1}, c \in S}

Count(s, e) == Cardinality({i \in 1..Len(s) : s[i] = e})


-----------------------------------------------------------------------------
(* ServerProcess (process.py).                                             *)
(*                                                                         *)
(* The process is the one ServerProcess.start spawns: stdin, stdout are    *)
(* pipes (stdin=PIPE, stdout=PIPE), so Popen.stdin is never None and stays *)
(* a file object after the child exits; a write to it then fails with      *)
(* BrokenPipeError when flushed (the pipe has no reader left).             *)

ExitCodes == {0, 1}                 \* codes a server exits with on its own
SignalExit(sig) == IF sig = "terminate" THEN -15 ELSE -9

Chars == {"a", "\n"}
Texts == SeqsUpTo(Chars, MaxTextLen)
StopText == <<"s", "t", "o", "p">>

\* str.endswith("\n")
EndsWithNewline(text) == Len(text) > 0 /\ text[Len(text)] = "\n"

\* send_command lines 75-76: the string handed to stdin.write
Written(command) ==
    IF ~EndsWithNewline(command) THEN command \o <<"\n">> ELSE command

\* Popen.poll(): the exit code once the child has exited, None before
poll == returncode

is_running == poll = None

\* stop lines 82-83, for a process that is not running
ExitedCodeZero(code) == 0
ExitedCode(code) == IF code # None THEN code[1] ELSE 0

ProcInit ==
    /\ returncode = None
    /\ stdin = <<>>
    /\ signals = <<>>
    /\ pc = "idle"
    /\ trace = <<>>
    /\ stopEntry = "none"
    /\ stopResult = NoResult
    /\ sendResult = [kind |-> "none", exc |-> "", text |-> <<>>, exited |-> FALSE,
                     before |-> <<>>]
    /\ stopCalls = 0
    /\ sendCalls = 0

\* No download in progress, nothing at the destination path.
DlIdle ==
    /\ dlPc = "idle"
    /\ dlExpected = <<>>
    /\ dest = None
    /\ destBefore = None
    /\ tmpFile = None
    /\ received = 0
    /\ dlExc = ""
    /\ dlResult = NoResult
    /\ dlCalls = 0

\* No start call made; an instance directory without a manifest.
StartIdle ==
    /\ osName = "posix"
    /\ fsLink = FALSE
    /\ manifestFile = None
    /\ startArgs = None
    /\ startResult = NoResult
    /\ spawned = None

\* ServerManifest (models.py 52-64): the fields the model follows
Manifest(loader, java, start) ==
    [loader |-> loader, java_required |-> java, start |-> start]

InstIdle ==
    /\ instPc = "idle"
    /\ request = None
    /\ eulaFile = None
    /\ propsFile = None
    /\ artifact = FALSE
    /\ before = None
    /\ java_required = None
    /\ javaLookup = "none"
    /\ instStage = "none"
    /\ jarCheck = "none"
    /\ instResult = NoResult

CallIdle ==
    /\ callArgs = None
    /\ callResult = NoCall
    /\ callEffects = <<>>

\* The launcher window is not part of the behaviour.
GuiIdle ==
    /\ threads = {}
    /\ started = 0
    /\ worker = None
    /\ ui_queue = <<>>
    /\ controls_busy = FALSE
    /\ buttons = [start |-> "normal", install |-> "normal", stop |-> "disabled",
                  refresh |-> "normal"]
    /\ server_process = None
    /\ live = {}
    /\ status = ""

\* The state of the log buffer right after __init__ (lines 25-31).
LogIdle ==
    /\ recent_lines = <<>>
    /\ linesRead = 0
    /\ reader = "running"
    /\ snapshot = None

\* The child process exits: on its own, or from a delivered signal.
ProcessExits ==
    /\ returncode = None
    /\ \E code \in ExitCodes \cup {SignalExit(signals[i]) : i \in 1..Len(signals)} :
           returncode' = Some(code)
    /\ UNCHANGED <<stdin, signals, pc, trace, stopEntry, stopResult, sendResult,
                   stopCalls, sendCalls>>
    /\ UNCHANGED <<logVars, dlVars, startVars, instVars, callVars, guiVars>>

\* send_command (lines 72-78), called by a caller thread at any time.
send_command(command) ==
    /\ sendCalls < MaxSends
    /\ sendCalls' = sendCalls + 1
    /\ IF returncode = None
       THEN /\ stdin' = Append(stdin, Written(command))
            /\ sendResult' = [kind |-> "return", exc |-> "", text |-> command,
                              exited |-> FALSE, before |-> stdin]
       ELSE /\ stdin' = stdin
            /\ sendResult' = [kind |-> "raise", exc |-> "BrokenPipeError",
                              text |-> command, exited |-> TRUE, before |-> stdin]
    /\ UNCHANGED <<returncode, signals, pc, trace, stopEntry, stopResult, stopCalls>>
    /\ UNCHANGED <<logVars, dlVars, startVars, instVars, callVars, guiVars>>

\* stop lines 81-83: the is_running check and the early return.
stop_begin ==
    /\ pc = "idle"
    /\ stopCalls < MaxStops
    /\ stopCalls' = stopCalls + 1
    /\ trace' = <<>>
    /\ IF ~is_running
       THEN /\ stopEntry' = "exited"
            /\ stopResult' = Return(ExitedCode(poll))
            /\ pc' = "idle"
       ELSE /\ stopEntry' = "running"
            /\ stopResult' = NoResult
            /\ pc' = "send"
    /\ UNCHANGED <<returncode, stdin, signals, sendResult, sendCalls>>
    /\ UNCHANGED <<logVars, dlVars, startVars, instVars, callVars, guiVars>>

\* stop line 85: send_command("stop"); BrokenPipeError is not caught by stop.
stop_send ==
    /\ pc = "send"
    /\ IF returncode = None
       THEN /\ stdin' = Append(stdin, Written(StopText))
            /\ trace' = Append(trace, "write")
            /\ pc' = "wait1"
            /\ stopResult' = stopResult
       ELSE /\ stdin' = stdin
            /\ trace' = trace
            /\ pc' = "idle"
            /\ stopResult' = Raise("BrokenPipeError")
    /\ UNCHANGED <<returncode, signals, stopEntry, sendResult, stopCalls, sendCalls>>
    /\ UNCHANGED <<logVars, dlVars, startVars, instVars, callVars, guiVars>>

\* stop lines 86, 90, 93: a wait(timeout) that sees the process exit.
stop_wait_exit ==
    /\ pc \in {"wait1", "wait2", "wait3"}
    /\ returncode # None
    /\ trace' = Append(trace, "exit")
    /\ stopResult' = Return(returncode[1])
    /\ pc' = "idle"
    /\ UNCHANGED <<returncode, stdin, signals, stopEntry, sendResult, stopCalls,
                   sendCalls>>
    /\ UNCHANGED <<logVars, dlVars, startVars, instVars, callVars, guiVars>>

\* stop lines 86-87: wait(graceful_timeout) raises TimeoutExpired.
stop_graceful_timeout_skip ==
    /\ pc = "wait1"
    /\ returncode = None
    /\ trace' = Append(trace, "timeout")
    /\ pc' = "kill"
    /\ UNCHANGED <<returncode, stdin, signals, stopEntry, stopResult, sendResult,
                   stopCalls, sendCalls>>
    /\ UNCHANGED <<logVars, dlVars, startVars, instVars, callVars, guiVars>>
stop_graceful_timeout ==
    /\ pc = "wait1"
    /\ returncode = None
    /\ trace' = Append(trace, "timeout")
    /\ pc' = "terminate"
    /\ UNCHANGED <<returncode, stdin, signals, stopEntry, stopResult, sendResult,
                   stopCalls, sendCalls>>
    /\ UNCHANGED <<logVars, dlVars, startVars, instVars, callVars, guiVars>>

\* Popen.terminate / Popen.kill: the signal reaches the child only if it is
\* still alive (send_signal polls first).
Deliver(sig) == IF returncode = None THEN Append(signals, sig) ELSE signals

\* stop line 88
stop_terminate ==
    /\ pc = "terminate"
    /\ signals' = Deliver("terminate")
    /\ trace' = Append(trace, "terminate")
    /\ pc' = "wait2"
    /\ UNCHANGED <<returncode, stdin, stopEntry, stopResult, sendResult, stopCalls,
                   sendCalls>>
    /\ UNCHANGED <<logVars, dlVars, startVars, instVars, callVars, guiVars>>

\* stop lines 90-91: wait(timeout=10) raises TimeoutExpired.
stop_terminate_timeout ==
    /\ pc = "wait2"
    /\ returncode = None
    /\ trace' = Append(trace, "timeout")
    /\ pc' = "kill"
    /\ UNCHANGED <<returncode, stdin, signals, stopEntry, stopResult, sendResult,
                   stopCalls, sendCalls>>
    /\ UNCHANGED <<logVars, dlVars, startVars, instVars, callVars, guiVars>>

\* stop line 92
stop_kill ==
    /\ pc = "kill"
    /\ signals' = Deliver("kill")
    /\ trace' = Append(trace, "kill")
    /\ pc' = "wait3"
    /\ UNCHANGED <<returncode, stdin, stopEntry, stopResult, sendResult, stopCalls,
                   sendCalls>>
    /\ UNCHANGED <<logVars, dlVars, startVars, instVars, callVars, guiVars>>

\* stop line 93: wait(timeout=5) raises TimeoutExpired inside the handlers;
\* nothing catches it.
FinalTimeoutSwallowed == Return(0)
FinalTimeoutOutcome == Raise("TimeoutExpired")

stop_final_timeout ==
    /\ pc = "wait3"
    /\ returncode = None
    /\ trace' = Append(trace, "timeout")
    /\ stopResult' = FinalTimeoutOutcome
    /\ pc' = "idle"
    /\ UNCHANGED <<returncode, stdin, signals, stopEntry, sendResult, stopCalls,
                   sendCalls>>
    /\ UNCHANGED <<logVars, dlVars, startVars, instVars, callVars, guiVars>>

ProcNext ==
    \/ ProcessExits
    \/ \E command \in Texts : send_command(command)
    \/ stop_begin
    \/ stop_send
    \/ stop_wait_exit
    \/ stop_graceful_timeout
    \/ stop_terminate
    \/ stop_terminate_timeout
    \/ stop_kill
    \/ stop_final_timeout

InitProc == ProcInit /\ LogIdle /\ DlIdle /\ GuiIdle /\ StartIdle /\ InstIdle /\ CallIdle

SpecProc == InitProc /\ [][ProcNext]_vars

-----------------------------------------------------------------------------
(* Claims about ServerProcess.stop and send_command, under SpecProc.       *)

\* The only ways a stop call on a running process can have gone so far.
EscalationSteps == <<"write", "timeout", "terminate", "timeout", "kill", "timeout">>
Prefix(n) == SubSeq(EscalationSteps, 1, n)

\* C1: in stop on a running process the escalation never skips or repeats a
\* stage: "stop\n" is written first, terminate is sent iff the graceful wait
\* timed out, kill is sent iff the 10-second wait after terminate timed out
\* as well, each at most once per call, and neither when the process exits
\* before the graceful timeout.
C1_EscalationInOrder ==
    /\ Count(trace, "terminate") <= 1
    /\ Count(trace, "kill") <= 1
    /\ pc = "send" => trace = Prefix(0)
    /\ pc = "wait1" => trace = Prefix(1) /\ stdin # <<>>
    /\ pc = "terminate" => trace = Prefix(2)
    /\ pc = "wait2" => trace = Prefix(3)
    /\ pc = "kill" => trace = Prefix(4)
    /\ pc = "wait3" => trace = Prefix(5)
    /\ pc = "idle" =>
           trace \in {Prefix(0), Prefix(6), Append(Prefix(1), "exit"),
                      Append(Prefix(3), "exit"), Append(Prefix(5), "exit")}
    /\ \A i \in 1..Len(trace) :
           /\ trace[i] = "terminate" => i = 3 /\ trace[2] = "timeout"
           /\ trace[i] = "kill" => i = 5 /\ trace[4] = "timeout"
           /\ trace[i] \in {"terminate", "kill", "timeout", "exit"} =>
                  /\ trace[1] = "write"
                  /\ \E j \in 1..Len(stdin) : stdin[j] = <<"s", "t", "o", "p", "\n">>

\* C1 witness: a stop call that went through every stage, each once.
C1_Witness ==
    /\ pc = "idle"
    /\ trace = Append(Prefix(5), "exit")
    /\ signals = <<"terminate", "kill">>

\* C6 (as claimed): send_command after the process has exited is a no-op
\* that raises nothing and changes nothing; on a live process it writes the
\* text followed by exactly one newline, appended only if the text has none.
C6_SendCommandNoOpAfterExit ==
    sendResult.kind # "none" =>
        IF sendResult.exited
        THEN sendResult.kind = "return" /\ Len(stdin) >= Len(sendResult.before)
        ELSE /\ sendResult.kind = "return"
             /\ Len(stdin) > Len(sendResult.before)
             /\ LET w == stdin[Len(sendResult.before) + 1]
                IN  /\ w[Len(w)] = "\n"
                    /\ \/ w = sendResult.text
                       \/ w = Append(sendResult.text, "\n") /\
                          ~EndsWithNewline(sendResult.text)

\* C7 (as claimed): stop returns the exit code observed during the stop
\* sequence, and 0 when the process had exited before stop was called.
C7_ZeroWhenAlreadyExited ==
    (pc = "idle" /\ stopResult.kind = "return") =>
        IF stopEntry = "exited"
        THEN stopResult.code = 0
        ELSE returncode # None /\ stopResult.code = returncode[1]

\* C7 (amended): whenever stop returns a value it is the exit code of the
\* process, also when the process had exited before stop was called.
C7_ReturnsExitCode ==
    stopResult.kind = "return" =>
        /\ returncode # None
        /\ stopResult.code = returncode[1]

\* C7 witness: stop on a process that had already exited with code 1.
C7_Witness ==
    /\ pc = "idle"
    /\ stopEntry = "exited"
    /\ stopResult = Return(1)

\* C27: when the process exits by itself after stop's is_running check and
\* before the write of "stop", stop still returns the exit code and sends
\* neither terminate nor kill; the only error a stop call on a running
\* process ever ends with is the timeout of the wait that follows kill.
C27_StopSurvivesConcurrentExit ==
    (pc = "idle" /\ stopEntry = "running" /\ stopResult.kind # "none") =>
        /\ stopResult.kind = "raise" =>
               stopResult.exc = "TimeoutExpired" /\ trace = Prefix(6)
        /\ trace = Prefix(0) =>
               /\ returncode # None
               /\ stopResult = Return(returncode[1])
               /\ Count(trace, "terminate") + Count(trace, "kill") = 0

\* C8: when the process is still alive after kill and the final 5-second
\* wait, stop raises (TimeoutExpired) instead of returning a code.
C8_FinalTimeoutPropagates ==
    (pc = "idle" /\ trace = Prefix(6)) =>
        /\ stopResult.kind = "raise"
        /\ stopResult.exc = "TimeoutExpired"

\* C8 witness: kill was delivered and the last wait timed out.
C8_Witness ==
    /\ pc = "idle"
    /\ trace = Prefix(6)
    /\ signals = <<"terminate", "kill">>
    /\ stopResult.kind = "raise"

-----------------------------------------------------------------------------
(* ServerProcess: the log buffer (process.py lines 25, 54-61, 95-97).      *)
(*                                                                         *)
(* The reader thread and the callers share self._recent_lines with no lock *)
(* of their own.  deque.append and list(deque) are single calls into the   *)
(* interpreter's C code, which runs each of them to completion while       *)
(* holding the global interpreter lock, so each is one step here; threads  *)
(* interleave between such calls.                                          *)

maxlen == 400

\* Lines are numbers: the text of the n-th line of the child's output is
\* the even number 2n, and a line still carrying its "\n" is that plus one.
\* The stream iterator yields every line with its "\n", except a last,
\* unterminated one.
RawLine(n, eol) == 2 * n + (IF eol = "\n" THEN 1 ELSE 0)

\* line.rstrip("\n") (line 58)
rstrip(line) == 2 * (line \div 2)

\* The number of the line with this (stripped) text.
LineNo(text) == text \div 2

\* deque(maxlen=400).append (line 59): a full deque drops its oldest item.
DequeAppendUnbounded(d, x) == Append(d, x)
DequeAppendDropsNewest(d, x) ==
    IF Len(d) >= maxlen THEN Append(SubSeq(d, 1, Len(d) - 1), x) ELSE Append(d, x)
DequeAppend(d, x) ==
    IF Len(d) >= maxlen THEN Append(Tail(d), x) ELSE Append(d, x)

\* _pump_stdout, one iteration of the loop (lines 57-61): read a line, strip
\* it, append it, hand it to the log handler; the handler may raise, which
\* ends the reader thread.  An unterminated line is the last one.
pump_line(eol, handlerOk) ==
    /\ reader = "running"
    /\ linesRead < MaxLines
    /\ linesRead' = linesRead + 1
    /\ recent_lines' = DequeAppend(recent_lines, rstrip(RawLine(linesRead + 1, eol)))
    /\ reader' = IF ~handlerOk THEN "crashed"
                 ELSE IF eol = "" THEN "finished" ELSE "running"
    /\ UNCHANGED snapshot
    /\ UNCHANGED <<procVars, dlVars, startVars, instVars, callVars, guiVars>>

\* _pump_stdout: the stream reaches end of file and the loop ends.
pump_eof ==
    /\ reader = "running"
    /\ reader' = "finished"
    /\ UNCHANGED <<recent_lines, linesRead, snapshot>>
    /\ UNCHANGED <<procVars, dlVars, startVars, instVars, callVars, guiVars>>

\* A snapshot torn by an append that lands in the middle of the copy: the
\* first j items are read before the append, the rest after it.
recent_lines_torn ==
    /\ reader = "running"
    /\ linesRead < MaxLines
    /\ LET after == DequeAppend(recent_lines, rstrip(RawLine(linesRead + 1, "\n")))
       IN  /\ \E j \in {0, Len(recent_lines) \div 2, Len(recent_lines)} :
                  snapshot' = Some(SubSeq(recent_lines, 1, j)
                                   \o SubSeq(after, j + 1, Len(after)))
           /\ recent_lines' = after
    /\ linesRead' = linesRead + 1
    /\ UNCHANGED reader
    /\ UNCHANGED <<procVars, dlVars, startVars, instVars, callVars, guiVars>>

\* recent_lines (lines 95-97): list(self._recent_lines), from a caller thread.
recent_lines_get ==
    /\ snapshot' = Some(recent_lines)
    /\ UNCHANGED <<recent_lines, linesRead, reader>>
    /\ UNCHANGED <<procVars, dlVars, startVars, instVars, callVars, guiVars>>

LogNext ==
    \/ \E eol \in {"\n", ""}, handlerOk \in BOOLEAN : pump_line(eol, handlerOk)
    \/ pump_eof
    \/ recent_lines_get

InitLog == ProcInit /\ LogIdle /\ DlIdle /\ GuiIdle /\ StartIdle /\ InstIdle /\ CallIdle

SpecLog == InitLog /\ [][LogNext]_vars

\* The buffer a reader that has appended k lines holds: the last
\* min(k, maxlen) of them, in the order read.
Window(k) ==
    LET n == IF k < maxlen THEN k ELSE maxlen
        first == 2 * (k - n)
    IN  [i \in 1..n |-> first + 2 * i]

\* C9: the log buffer never holds more than 400 lines and equals the last
\* min(n, 400) of the n lines read so far, in the order read.
C9_BufferIsLastLines ==
    /\ Len(recent_lines) <= maxlen
    /\ recent_lines = Window(linesRead)

\* C9 witness: a 401st line has arrived and the oldest one is gone.
C9_Witness ==
    /\ linesRead = maxlen + 1
    /\ Len(recent_lines) = maxlen
    /\ LineNo(recent_lines[1]) = 2

-----------------------------------------------------------------------------
(* HttpClient.download (http.py lines 66-119) and _validate_url (121-140). *)
(*                                                                         *)
(* A file is the sequence of its bytes.  The temporary file is created in  *)
(* the destination's directory; the unlink of the finally block is taken   *)
(* to succeed (a failure of it is swallowed on lines 117-118).             *)

max_download_bytes == 3

Bytes == {"x", "y"}
Chunks == SeqsUpTo(Bytes, ChunkSize) \ {<<>>}

\* A url: its scheme as written, whether its host is missing, a name or an
\* IP literal, and the class of the address (the literal's, or the one the
\* name resolves to).
Schemes == {"https", "HTTPS", "http"}
AddrClasses == {"global", "private", "loopback", "link_local", "multicast", "reserved"}
Urls == {[scheme |-> sc, host |-> h, addr |-> a] :
            sc \in Schemes, h \in {"", "name", "ip"}, a \in AddrClasses}

\* str.lower() on a scheme
LowerScheme(sc) == IF sc = "HTTPS" THEN "https" ELSE sc

\* _validate_url (lines 121-140): TRUE when the url is let through.  Only
\* an IP literal is classified; a host name makes ip_address raise
\* ValueError and the url passes.
validate_url(url) ==
    IF LowerScheme(url.scheme) # "https" THEN FALSE
    ELSE IF url.host = "" THEN FALSE
    ELSE IF url.host = "name" THEN TRUE
    ELSE url.addr \notin {"private", "loopback", "link_local", "multicast", "reserved"}

\* The urls a download is tried with.
DlUrls == {[scheme |-> "https", host |-> "name", addr |-> "global"],
           [scheme |-> "http", host |-> "name", addr |-> "global"],
           [scheme |-> "https", host |-> "ip", addr |-> "loopback"]}

\* Hex digests: the digits a digest is written with, and str.lower().
HexDigits == {"a", "b", "A", "B"}
LowerHex(c) == IF c = "A" THEN "a" ELSE IF c = "B" THEN "b" ELSE c
Lower(h) == [i \in 1..Len(h) |-> LowerHex(h[i])]

\* hash_file: the lower-case hex digest of a file, distinct for distinct
\* files.
hash_file(file) == [i \in 1..Len(file) |-> IF file[i] = "x" THEN "a" ELSE "b"]

ExpectedHashes == SeqsUpTo(HexDigits, MaxHashLen)

\* The Content-Length header: absent, not a number, or a number.
Headers == {[kind |-> "absent", value |-> 0], [kind |-> "text", value |-> 0]}
           \cup {[kind |-> "int", value |-> n] : n \in 0..(max_download_bytes + 1)}

\* lines 83-87
declared_size(header) == IF header.kind = "int" THEN header.value ELSE 0

\* lines 103-105: the digest check passes (or there is nothing to check)
hash_unchecked(file, expected) == TRUE
hash_ok(file, expected) ==
    expected # <<>> => Lower(hash_file(file)) = Lower(expected)

\* download is called (lines 66-77): the request is built, which validates
\* the url; a blocked url raises DownloadError before anything is opened.
download_begin(url, expected) ==
    /\ dlPc = "idle"
    /\ dlCalls < MaxDownloads
    /\ dlCalls' = dlCalls + 1
    /\ dlExpected' = expected
    /\ destBefore' = dest
    /\ received' = 0
    /\ dlResult' = NoResult
    /\ IF validate_url(url)
       THEN dlExc' = "" /\ dlPc' = "open"
       ELSE dlExc' = "DownloadError" /\ dlPc' = "finally"
    /\ UNCHANGED <<dest, tmpFile>>
    /\ UNCHANGED <<procVars, logVars, startVars, instVars, callVars, guiVars>>

\* lines 76-81: the connection is opened (a URLError becomes a DownloadError
\* on lines 111-112) and the temporary file is created (OSError if it cannot).
dl_open ==
    /\ dlPc = "open"
    /\ \E outcome \in {"ok", "URLError", "OSError"} :
           IF outcome = "ok"
           THEN /\ tmpFile' = Some(<<>>)
                /\ dlPc' = "header"
                /\ UNCHANGED dlExc
           ELSE /\ dlExc' = IF outcome = "URLError" THEN "DownloadError" ELSE outcome
                /\ dlPc' = "finally"
                /\ UNCHANGED tmpFile
    /\ UNCHANGED <<dlExpected, dest, destBefore, received, dlResult, dlCalls>>
    /\ UNCHANGED <<procVars, logVars, startVars, instVars, callVars, guiVars>>

\* lines 82-92: the declared size is checked against the cap.
dl_header(header) ==
    /\ dlPc = "header"
    /\ IF header.kind # "absent" /\ declared_size(header) > max_download_bytes
       THEN dlExc' = "DownloadError" /\ dlPc' = "finally"
       ELSE dlExc' = dlExc /\ dlPc' = "read"
    /\ UNCHANGED <<dlExpected, dest, destBefore, tmpFile, received, dlResult,
                   dlCalls>>
    /\ UNCHANGED <<procVars, logVars, startVars, instVars, callVars, guiVars>>

\* lines 93-102: one chunk is read, counted, checked against the cap, written.
dl_read_chunk(chunk) ==
    /\ dlPc = "read"
    /\ received' = received + Len(chunk)
    /\ IF received + Len(chunk) > max_download_bytes
       THEN dlExc' = "DownloadError" /\ dlPc' = "finally" /\ UNCHANGED tmpFile
       ELSE dlExc' = dlExc /\ dlPc' = "read" /\ tmpFile' = Some(tmpFile[1] \o chunk)
    /\ UNCHANGED <<dlExpected, dest, destBefore, dlResult, dlCalls>>
    /\ UNCHANGED <<procVars, logVars, startVars, instVars, callVars, guiVars>>

\* lines 94-96: the response is exhausted; the with block closes the file.
dl_read_eof ==
    /\ dlPc = "read"
    /\ dlPc' = "verify"
    /\ UNCHANGED <<dlExpected, dest, destBefore, tmpFile, received, dlExc,
                   dlResult, dlCalls>>
    /\ UNCHANGED <<procVars, logVars, startVars, instVars, callVars, guiVars>>

\* line 94: the read fails (a timeout, a reset connection); not a URLError,
\* so it leaves download as it is.
dl_read_error ==
    /\ dlPc = "read"
    /\ dlExc' = "OSError"
    /\ dlPc' = "finally"
    /\ UNCHANGED <<dlExpected, dest, destBefore, tmpFile, received, dlResult,
                   dlCalls>>
    /\ UNCHANGED <<procVars, logVars, startVars, instVars, callVars, guiVars>>

\* lines 103-109: the digest of the temporary file is compared.
dl_verify ==
    /\ dlPc = "verify"
    /\ IF hash_ok(tmpFile[1], dlExpected)
       THEN dlExc' = dlExc /\ dlPc' = "replace"
       ELSE dlExc' = "DownloadError" /\ dlPc' = "finally"
    /\ UNCHANGED <<dlExpected, dest, destBefore, tmpFile, received, dlResult,
                   dlCalls>>
    /\ UNCHANGED <<procVars, logVars, startVars, instVars, callVars, guiVars>>

\* line 110: the temporary file is renamed over the destination; the rename
\* can fail (OSError).
dl_replace ==
    /\ dlPc = "replace"
    /\ dlPc' = "finally"
    /\ \E ok \in BOOLEAN :
           IF ok
           THEN dest' = tmpFile /\ tmpFile' = None /\ UNCHANGED dlExc
           ELSE dlExc' = "OSError" /\ UNCHANGED <<dest, tmpFile>>
    /\ UNCHANGED <<dlExpected, destBefore, received, dlResult, dlCalls>>
    /\ UNCHANGED <<procVars, logVars, startVars, instVars, callVars, guiVars>>

\* lines 113-119: the finally block removes the temporary file if there is
\* one; download then returns or lets the exception through.
dl_finally_keeps_tmp ==
    /\ dlPc = "finally"
    /\ dlResult' = IF dlExc = "" THEN Return(0) ELSE Raise(dlExc)
    /\ dlPc' = "idle"
    /\ UNCHANGED <<dlExpected, dest, destBefore, tmpFile, received, dlExc,
                   dlCalls>>
    /\ UNCHANGED <<procVars, logVars, startVars, instVars, callVars, guiVars>>
dl_finally ==
    /\ dlPc = "finally"
    /\ tmpFile' = None
    /\ dlResult' = IF dlExc = "" THEN Return(0) ELSE Raise(dlExc)
    /\ dlPc' = "idle"
    /\ UNCHANGED <<dlExpected, dest, destBefore, received, dlExc, dlCalls>>
    /\ UNCHANGED <<procVars, logVars, startVars, instVars, callVars, guiVars>>

DlNext ==
    \/ \E url \in DlUrls, expected \in ExpectedHashes : download_begin(url, expected)
    \/ dl_open
    \/ \E header \in Headers : dl_header(header)
    \/ \E chunk \in Chunks : dl_read_chunk(chunk)
    \/ dl_read_eof
    \/ dl_read_error
    \/ dl_verify
    \/ dl_replace
    \/ dl_finally

InitDl == ProcInit /\ LogIdle /\ DlIdle /\ GuiIdle /\ StartIdle /\ InstIdle /\ CallIdle

SpecDl == InitDl /\ [][DlNext]_vars

-----------------------------------------------------------------------------
(* ServerManager.start and the start-command checks (manager.py 60-169),   *)
(* StartCommands.for_platform (models.py 16-21).                           *)
(*                                                                         *)
(* A token is the sequence of its lexemes: a lexeme is a character that    *)
(* the checks look at ("@", "/", a quote, a blank), a path component       *)
(* (".", "..", a name), a file extension (".jar") or a whole word          *)
(* ("{java}", "-jar").  Paths are POSIX paths.  The instance directory is  *)
(* /srv/inst; <instance>/link may be a symlink to the directory /outside.  *)

Tok_java == <<"{java}">>
Tok_cmd == <<"cmd">>
Tok_jar == <<"-jar">>
Tok_nogui == <<"nogui">>
AtOutside == <<"@", "..", "/", "outside", ".txt">>
AtQuotedOutside == <<"@", "'", "..", "/", "outside", ".txt", "'">>
AtOk == <<"@", "libraries", "/", "ok", ".txt">>
AtLink == <<"@", "link", "/", "args", ".txt">>
AtOnly == <<"@">>
AtAbs == <<"@", "/", "abs", "/", "args", ".txt">>
ServerJar == <<"server", ".jar">>
UpperJar == <<"server", ".JAR">>
ServerTxt == <<"server", ".txt">>
EvilJar == <<"..", "/", "..", "/", "evil", ".jar">>
AbsJar == <<"/", "abs", "/", "evil", ".jar">>
QuotedAbsJar == <<"\"", "/", "abs", "/", "evil", ".jar", "\"">>
BackInsideJar == <<"..", "/", "inst", "/", "server", ".jar">>

FirstTokens == {Tok_java, Tok_cmd}
RestTokens == {Tok_jar, Tok_nogui, AtOutside, AtQuotedOutside, AtOk, AtLink, AtOnly, AtAbs,
               ServerJar, UpperJar, ServerTxt, EvilJar, AbsJar, QuotedAbsJar,
               BackInsideJar}

Templates ==
    {<<f>> \o r : f \in FirstTokens, r \in SeqsUpTo(RestTokens, MaxTemplateLen - 1)}

\* The template the providers write for a jar-based loader.
JarTemplate == <<Tok_java, Tok_jar, ServerJar, Tok_nogui>>

\* Python truthiness of an optional list: None and [] are false.
Truthy(opt) == opt # None /\ opt[1] # <<>>

\* The start commands a manifest on disk can hold.
StartCommandsSet ==
    {[default |-> t, windows |-> None, posix |-> None] : t \in Templates}
    \cup {[default |-> JarTemplate, windows |-> Some(t), posix |-> Some(t)] :
             t \in Templates \cup {<<>>}}
    \cup {[default |-> t, windows |-> Some(JarTemplate), posix |-> None] :
             t \in Templates}

\* StartCommands.for_platform (models.py 16-21)
for_platform(start) ==
    IF osName = "nt" /\ Truthy(start.windows) THEN start.windows[1]
    ELSE IF osName # "nt" /\ Truthy(start.posix) THEN start.posix[1]
    ELSE start.default

\* str.strip(chars): drop the leading and trailing lexemes that are in cs.
RECURSIVE LStrip(_, _)
LStrip(t, cs) == IF t # <<>> /\ t[1] \in cs THEN LStrip(Tail(t), cs) ELSE t
RECURSIVE RStrip(_, _)
RStrip(t, cs) ==
    IF t # <<>> /\ t[Len(t)] \in cs THEN RStrip(SubSeq(t, 1, Len(t) - 1), cs) ELSE t
Strip(t, cs) == RStrip(LStrip(t, cs), cs)

Whitespace == {" ", "\t", "\n", "\r"}
Quotes == {"\"", "'"}
ControlChars == {"NUL", "\r", "\n"}
ShellTokens == {<<"|">>, <<"||">>, <<"&&">>, <<";">>}
ExtLexemes == {".jar", ".JAR", ".txt"}

\* The number of characters of a token; "LONG" stands for 1025 of them.
RECURSIVE CharLen(_)
CharLen(t) ==
    IF t = <<>> THEN 0
    ELSE (IF t[1] = "LONG" THEN 1025 ELSE 1) + CharLen(Tail(t))

\* _validate_java_path (manager.py 115-121): TRUE when the path is accepted
validate_java_path(java_path) ==
    /\ Strip(java_path, Whitespace) # <<>>
    /\ \A i \in 1..Len(java_path) : java_path[i] \notin ControlChars

validate_start_template_first_only(raw) ==
    raw # <<>> /\ Len(raw) <= 80 /\ raw[1] = Tok_java

\* _validate_start_template (manager.py 123-142): TRUE when it is accepted
validate_start_template(raw) ==
    /\ raw # <<>>
    /\ Len(raw) <= 80
    /\ raw[1] = Tok_java
    /\ \A i \in 1..Len(raw) :
           /\ Strip(raw[i], Whitespace) # <<>>
           /\ CharLen(raw[i]) <= 1024
           /\ \A j \in 1..Len(raw[i]) : raw[i][j] \notin ControlChars
           /\ raw[i] \notin ShellTokens

\* Path(text): the components of a path, "." components and empty ones
\* dropped as pathlib does.
RECURSIVE SplitPath(_, _, _)
SplitPath(t, cur, parts) ==
    IF t = <<>> THEN (IF cur = <<>> THEN parts ELSE Append(parts, cur))
    ELSE IF t[1] = "/"
         THEN SplitPath(Tail(t), <<>>, IF cur = <<>> THEN parts ELSE Append(parts, cur))
         ELSE SplitPath(Tail(t), Append(cur, t[1]), parts)
PathParts(t) == SelectSeq(SplitPath(t, <<>>, <<>>), LAMBDA c : c # <<".">>)

\* Path.is_absolute()
is_absolute(t) == t # <<>> /\ t[1] = "/"

InstanceDir == <<<<"srv">>, <<"inst">>>>
LinkTarget == <<<<"outside">>>>

\* Path.resolve(): ".." steps to the parent, a symlink is followed.
FollowLink(dir) ==
    IF fsLink /\ dir = Append(InstanceDir, <<"link">>) THEN LinkTarget ELSE dir
RECURSIVE Resolve(_, _)
Resolve(dir, parts) ==
    IF parts = <<>> THEN dir
    ELSE LET c == parts[1]
             next == IF c = <<"..">>
                     THEN (IF dir = <<>> THEN dir ELSE SubSeq(dir, 1, Len(dir) - 1))
                     ELSE FollowLink(Append(dir, c))
         IN  Resolve(next, Tail(parts))

\* candidate.relative_to(instance_dir) does not raise
IsUnder(candidate, dir) ==
    Len(candidate) >= Len(dir) /\ SubSeq(candidate, 1, Len(dir)) = dir

\* _resolve_under_instance_dir (manager.py 154-169): the resolved path, and
\* whether the call returned it (ok) or raised ManifestError.
resolve_ignores_parent(token) ==
    LET normalized == Strip(Strip(token, Whitespace), Quotes)
        candidate == InstanceDir \o SelectSeq(PathParts(normalized),
                                              LAMBDA c : c # <<"..">>)
    IN  [ok |-> ~is_absolute(normalized), path |-> candidate]
resolve_under_instance_dir(token) ==
    LET normalized == Strip(Strip(token, Whitespace), Quotes)
        candidate == Resolve(InstanceDir, PathParts(normalized))
    IN  IF is_absolute(normalized) THEN [ok |-> FALSE, path |-> <<>>]
        ELSE [ok |-> IsUnder(candidate, InstanceDir), path |-> candidate]

\* Path.suffix followed by str.lower()
Suffix(path) ==
    IF path = <<>> THEN ""
    ELSE LET name == path[Len(path)]
         IN  IF Len(name) >= 2 /\ name[Len(name)] \in ExtLexemes
             THEN name[Len(name)] ELSE ""
LowerExt(ext) == IF ext = ".JAR" THEN ".jar" ELSE ext

validate_start_paths_jar_only(raw) ==
    \A idx \in 1..Len(raw) :
        (raw[idx] = Tok_jar /\ idx < Len(raw)) =>
            LET jar_path == resolve_under_instance_dir(raw[idx + 1])
            IN  jar_path.ok /\ LowerExt(Suffix(jar_path.path)) = ".jar"

\* _validate_start_paths (manager.py 144-152): TRUE when nothing is raised
validate_start_paths(raw) ==
    \A idx \in 1..Len(raw) :
        /\ (raw[idx] # <<>> /\ raw[idx][1] = "@" /\ CharLen(raw[idx]) > 1) =>
               resolve_under_instance_dir(Tail(raw[idx])).ok
        /\ (raw[idx] = Tok_jar /\ idx < Len(raw)) =>
               LET jar_path == resolve_under_instance_dir(raw[idx + 1])
               IN  jar_path.ok /\ LowerExt(Suffix(jar_path.path)) = ".jar"

\* build_start_command (manager.py 60-83), the part after the validation
JavaIndex(command, java_path) ==
    CHOOSE i \in 1..Len(command) :
        command[i] = java_path /\ \A j \in 1..(i - 1) : command[j] # java_path
build_start_command_appends(raw, java_path, xms, xmx, jvm_args) ==
    [i \in 1..Len(raw) |-> IF raw[i] = Tok_java THEN java_path ELSE raw[i]]
    \o (IF xms # <<>> THEN <<<<"-Xms">> \o xms>> ELSE <<>>)
    \o (IF xmx # <<>> THEN <<<<"-Xmx">> \o xmx>> ELSE <<>>)
    \o jvm_args
build_start_command(raw, java_path, xms, xmx, jvm_args) ==
    LET command == [i \in 1..Len(raw) |->
                        IF raw[i] = Tok_java THEN java_path ELSE raw[i]]
        extra == (IF xms # <<>> THEN <<<<"-Xms">> \o xms>> ELSE <<>>)
                 \o (IF xmx # <<>> THEN <<<<"-Xmx">> \o xmx>> ELSE <<>>)
                 \o jvm_args
    IN  IF (\E i \in 1..Len(raw) : raw[i] = Tok_java) /\ command # <<>>
        THEN LET at == JavaIndex(command, java_path)
             IN  SubSeq(command, 1, at) \o extra \o SubSeq(command, at + 1, Len(command))
        ELSE command

\* The calls of start the model makes: the defaults, every option given,
\* a blank java path, and JVM arguments that name a jar and an argfile
\* outside the instance directory.
StartCalls ==
    {[java_path |-> <<"java">>, xms |-> <<>>, xmx |-> <<>>, jvm_args |-> <<>>],
     [java_path |-> <<"java">>, xms |-> <<"1G">>, xmx |-> <<"2G">>,
      jvm_args |-> <<<<"-Dfoo=1">>>>],
     [java_path |-> <<" ">>, xms |-> <<>>, xmx |-> <<>>, jvm_args |-> <<>>],
     [java_path |-> <<"java">>, xms |-> <<>>, xmx |-> <<>>,
      jvm_args |-> <<Tok_jar, AbsJar, AtOutside>>]}

\* load_manifest: ManifestError when the instance directory holds no manifest
load_manifest_ok == manifestFile # None

\* ServerManager.start (manager.py 85-112)
start(java_path, xms, xmx, jvm_args) ==
    /\ startResult.kind = "none"
    /\ startArgs' = Some([java_path |-> java_path, xms |-> xms, xmx |-> xmx,
                          jvm_args |-> jvm_args])
    /\ IF ~load_manifest_ok
       THEN startResult' = Raise("ManifestError") /\ spawned' = None
       ELSE LET raw_command == for_platform(manifestFile[1].start)
            IN  IF \/ ~validate_start_template(raw_command)
                   \/ ~validate_start_paths(raw_command)
                   \/ ~validate_java_path(java_path)
                THEN startResult' = Raise("ManifestError") /\ spawned' = None
                ELSE \E popen \in {"ok", "OSError"} :
                        IF popen = "ok"
                        THEN /\ startResult' = Return(0)
                             /\ spawned' = Some(build_start_command(
                                    raw_command, java_path, xms, xmx, jvm_args))
                        ELSE /\ startResult' = Raise("OSError")
                             /\ spawned' = None
    /\ UNCHANGED <<osName, fsLink, manifestFile>>
    /\ UNCHANGED <<procVars, logVars, dlVars, instVars, callVars, guiVars>>

StartNext ==
    \E call \in StartCalls :
        start(call.java_path, call.xms, call.xmx, call.jvm_args)

InitStart ==
    /\ ProcInit /\ LogIdle /\ DlIdle /\ GuiIdle /\ InstIdle /\ CallIdle
    /\ osName \in {"nt", "posix"}
    /\ fsLink \in BOOLEAN
    /\ manifestFile \in {None} \cup {Some(Manifest("vanilla", None, sc)) : sc \in StartCommandsSet}
    /\ startArgs = None
    /\ startResult = NoResult
    /\ spawned = None

SpecStart == InitStart /\ [][StartNext]_vars

\* The tokens of the model, sorted by what the claim says about them: the
\* argfile references that leave the instance directory, the -jar targets
\* that are absolute or leave it, and the -jar targets named *.jar.
EscapingArgfiles ==
    {AtOutside, AtQuotedOutside, AtAbs} \cup (IF fsLink THEN {AtLink} ELSE {})
EscapingTargets == {EvilJar, AbsJar, QuotedAbsJar}
JarNamed == {ServerJar, UpperJar, EvilJar, AbsJar, QuotedAbsJar, BackInsideJar}

MustReject(t) ==
    \E i \in 1..Len(t) :
        \/ t[i] \in EscapingArgfiles
        \/ /\ t[i] = Tok_jar
           /\ i < Len(t)
           /\ (t[i + 1] \in EscapingTargets \/ t[i + 1] \notin JarNamed)

\* C3: start raises ManifestError and spawns nothing when the selected
\* template holds an "@" token or a -jar target that is absolute or resolves
\* outside the instance directory, or a -jar target without a .jar suffix;
\* a template whose "@" and -jar paths all stay inside passes the check.
C3_UnsafePathsRejected ==
    (startResult.kind # "none" /\ manifestFile # None) =>
        LET t == for_platform(manifestFile[1].start)
        IN  /\ MustReject(t) =>
                   startResult = Raise("ManifestError") /\ spawned = None
            /\ (~MustReject(t) /\ t # <<>> /\ t[1] = Tok_java
                    /\ startArgs[1].java_path = <<"java">>) =>
                   startResult # Raise("ManifestError")

\* C3 witness: a template with a -jar target two levels up was refused.
C3_Witness ==
    /\ manifestFile # None
    /\ for_platform(manifestFile[1].start) = <<Tok_java, Tok_jar, EvilJar>>
    /\ startResult = Raise("ManifestError")
    /\ spawned = None

\* C3, the accepting side: the jar template was started.
C3_Accepted ==
    /\ manifestFile # None
    /\ for_platform(manifestFile[1].start) = <<Tok_java, AtOk, BackInsideJar>>
    /\ spawned # None

\* Token i of the command t names an argfile, or is the target of a -jar
\* token, that lies outside the instance directory.
EscapesAt(t, i) ==
    \/ t[i] \in EscapingArgfiles
    \/ i > 1 /\ t[i - 1] = Tok_jar /\ t[i] \in EscapingTargets

\* C28 (as claimed): in every command start hands to the spawner the first
\* token is the java executable, and every "@" token and every token after
\* a -jar token of the final command resolves inside the instance
\* directory, the tokens inserted from xms, xmx and jvm_args included.
C28_FinalCommandConfined ==
    spawned # None =>
        /\ spawned[1][1] = startArgs[1].java_path
        /\ \A i \in 1..Len(spawned[1]) : ~EscapesAt(spawned[1], i)

\* C28 (amended): in every command start hands to the spawner the first
\* token is the java executable, the tokens of the selected template follow
\* the inserted ones unchanged, and every "@" token and every token after a
\* -jar token of that template resolves inside the instance directory; the
\* tokens inserted from xms, xmx and jvm_args are not checked.
C28_TemplateTokensConfined ==
    spawned # None =>
        LET t == for_platform(manifestFile[1].start)
            argv == spawned[1]
            inserted == Len(argv) - Len(t)
        IN  /\ argv[1] = startArgs[1].java_path
            /\ inserted >= 0
            /\ \A i \in 2..Len(t) : argv[i + inserted] = t[i]
            /\ \A i \in 1..Len(t) : ~EscapesAt(t, i)

\* C28 witness: the jar template was started with JVM arguments that name a
\* jar outside the instance directory, and they reached the spawner.
C28_Witness ==
    /\ manifestFile # None
    /\ for_platform(manifestFile[1].start) = <<Tok_java, Tok_jar, ServerJar>>
    /\ startArgs # None
    /\ startArgs[1].jvm_args = <<Tok_jar, AbsJar, AtOutside>>
    /\ spawned = Some(<<<<"java">>, Tok_jar, AbsJar, AtOutside, Tok_jar, ServerJar>>)

-----------------------------------------------------------------------------
(* ServerManager.install (manager.py 29-55) and the install of the eight   *)
(* providers (providers/*.py).  The call is followed step by step: the     *)
(* provider resolves its versions, downloads its jar or its installer,     *)
(* runs the installer, looks for the installed artifact and asks for the   *)
(* Java requirement; install then writes the eula, the properties and the  *)
(* manifest.  What the network, the installer and the disk answer is       *)
(* chosen freely.                                                          *)

LoaderIds ==
    {"vanilla", "paper", "folia", "purpur", "fabric", "quilt", "forge", "neoforge"}
LoaderInputs == LoaderIds \cup {"Mojang", "bogus"}
JarLoaders == {"vanilla", "paper", "folia", "purpur"}
GuardedLookup == {"forge", "neoforge"}

\* normalize_loader: case-fold, map the aliases, None for an unknown name
\* (the call raises UnsupportedLoaderError)
CaseFold(name) == IF name = "Mojang" THEN "mojang" ELSE name
normalize_loader(name) ==
    LET folded == CaseFold(name)
    IN  IF folded \in LoaderIds THEN Some(folded)
        ELSE IF folded = "mojang" THEN Some("vanilla")
        ELSE None

\* server.properties as a map from its keys; Absent marks a missing key.
PropKeys == {"whitelist", "motd"}
Absent == "<absent>"
PropsOf(w, m) == [k \in PropKeys |-> IF k = "whitelist" THEN w ELSE m]
Overrides ==
    {None, Some(PropsOf(Absent, Absent)), Some(PropsOf("false", Absent)),
     Some(PropsOf(Absent, "hello"))}

\* The keys of an optional mapping: none when the mapping is None.
OrAbsent(opt) == IF opt = None THEN PropsOf(Absent, Absent) ELSE opt[1]

\* Python truthiness of an optional mapping: None and {} are false.
DictTruthy(opt) == opt # None /\ \E k \in PropKeys : opt[1][k] # Absent

\* write_server_properties: the keys of the existing file, or whitelist=true
\* when there is none, with the caller's keys written over them
write_server_properties(existing, properties) ==
    LET base == IF existing = None THEN PropsOf("true", Absent) ELSE existing[1]
    IN  [k \in PropKeys |-> IF properties[k] # Absent THEN properties[k] ELSE base[k]]

\* The start commands the providers put in their manifest.
LaunchJar(loader) ==
    IF loader = "fabric" THEN <<"fabric-server-launch", ".jar">>
    ELSE IF loader = "quilt" THEN <<"quilt-server-launch", ".jar">>
    ELSE ServerJar
UserJvmArgs == <<"@", "user_jvm_args", ".txt">>
ArgFile(loader, name) ==
    <<"@", "libraries", "/", "net", "/">>
    \o (IF loader = "forge" THEN <<"minecraftforge", "/", "forge">>
        ELSE <<"neoforged", "/", "neoforge">>)
    \o <<"/", "VERSION", "/", name, ".txt">>
ArgFileTemplate(loader, name) ==
    <<Tok_java, UserJvmArgs, ArgFile(loader, name), Tok_nogui>>
ProviderStart(loader) ==
    IF loader \in {"forge", "neoforge"}
    THEN [default |-> ArgFileTemplate(loader, "unix_args"),
          windows |-> Some(ArgFileTemplate(loader, "win_args")),
          posix |-> Some(ArgFileTemplate(loader, "unix_args"))]
    ELSE [default |-> <<Tok_java, Tok_jar, LaunchJar(loader), Tok_nogui>>,
          windows |-> None, posix |-> None]

Requests ==
    [loader : LoaderInputs, minecraft_version : {"latest", "1.20.1"},
     accept_eula : BOOLEAN, server_properties : Overrides]

\* The instance directories an install can find: a fresh one, and one left
\* by an earlier install whose properties were edited afterwards.
InstanceDirs ==
    {[manifest |-> None, eula |-> None, props |-> None, artifact |-> FALSE],
     [manifest |-> Some(Manifest("paper", None, ProviderStart("paper"))),
      eula |-> Some(TRUE), props |-> Some(PropsOf("false", "hi")),
      artifact |-> TRUE],
     [manifest |-> None, eula |-> Some(FALSE), props |-> Some(PropsOf(Absent, "hi")),
      artifact |-> FALSE]}

\* The errors a provider's version resolution can end in.
ResolveErrors(loader) ==
    {"DownloadError", "VersionResolutionError"}
    \cup (IF loader \in {"vanilla", "paper", "folia"} THEN {"RuntimeError"} ELSE {})

\* An exception leaves install: nothing after the raising step runs.
InstallRaises(stage, exc) ==
    /\ instPc' = "done"
    /\ instStage' = stage
    /\ instResult' = Raise(exc)

\* install up to the provider call (manager.py 30-34)
install_begin_eula_first(req) ==
    /\ instPc = "idle"
    /\ before' = Some([manifest |-> manifestFile, eula |-> eulaFile,
                       props |-> propsFile])
    /\ eulaFile' = Some(req.accept_eula)
    /\ LET loader_id == normalize_loader(req.loader)
       IN  IF loader_id = None
           THEN /\ request' = Some(req)
                /\ InstallRaises("normalize", "UnsupportedLoaderError")
           ELSE /\ request' = Some([req EXCEPT !.loader = loader_id[1]])
                /\ instPc' = "resolve"
                /\ UNCHANGED <<instStage, instResult>>
    /\ UNCHANGED <<manifestFile, propsFile, artifact, java_required, javaLookup>>
    /\ UNCHANGED <<osName, fsLink, startArgs, startResult, spawned>>
    /\ UNCHANGED jarCheck
    /\ UNCHANGED <<procVars, logVars, dlVars, callVars, guiVars>>
install_begin(req) ==
    /\ instPc = "idle"
    /\ before' = Some([manifest |-> manifestFile, eula |-> eulaFile,
                       props |-> propsFile])
    /\ LET loader_id == normalize_loader(req.loader)
       IN  IF loader_id = None
           THEN /\ request' = Some(req)
                /\ InstallRaises("normalize", "UnsupportedLoaderError")
           ELSE /\ request' = Some([req EXCEPT !.loader = loader_id[1]])
                /\ instPc' = "resolve"
                /\ UNCHANGED <<instStage, instResult>>
    /\ UNCHANGED <<manifestFile, eulaFile, propsFile, artifact, java_required,
                   javaLookup>>
    /\ UNCHANGED <<osName, fsLink, startArgs, startResult, spawned>>
    /\ UNCHANGED jarCheck
    /\ UNCHANGED <<procVars, logVars, dlVars, callVars, guiVars>>

\* The provider resolves the Minecraft version and its own version or build
\* (vanilla.py 15-24, paper_family.py 60-69, purpur.py 32-43,
\* fabric.py 61-65, quilt.py 57-63, forge.py 65-70, neoforge.py 69-73).
\* Vanilla reads java_required from the version data it fetched here.
provider_resolve(outcome, java) ==
    /\ instPc = "resolve"
    /\ outcome \in {"ok"} \cup ResolveErrors(request[1].loader)
    /\ (request[1].loader # "vanilla" \/ outcome # "ok") => java = None
    /\ IF outcome = "ok"
       THEN /\ instPc' = "download"
            /\ java_required' = java
            /\ UNCHANGED <<instStage, instResult>>
       ELSE /\ InstallRaises("resolve", outcome)
            /\ UNCHANGED java_required
    /\ UNCHANGED <<request, eulaFile, propsFile, artifact, before, javaLookup>>
    /\ UNCHANGED startVars
    /\ UNCHANGED jarCheck
    /\ UNCHANGED <<procVars, logVars, dlVars, callVars, guiVars>>

\* HttpClient.download checks a digest only when one is supplied
\* (http.py 103): None and "" are not supplied.
digest_checked(expected_hash) == expected_hash # <<>>

\* The digests the upstream metadata can hand to a jar download: none
\* (the key is missing: dict.get returns None) or one.
MetadataDigests == {<<>>, <<"a">>}

\* http_client.download of server.jar into the instance directory, or of
\* the installer into a temporary directory (vanilla.py 26-32,
\* paper_family.py 75-81, purpur.py 46-52, fabric.py 69, quilt.py 67,
\* forge.py 78, neoforge.py 81).  The jar comes with the digest the
\* metadata holds, the installer with none.
provider_download(outcome, expected_hash) ==
    /\ instPc = "download"
    /\ request[1].loader \notin JarLoaders => expected_hash = <<>>
    /\ IF outcome = "ok"
       THEN /\ artifact' = (artifact \/ request[1].loader \in JarLoaders)
            /\ jarCheck' = IF request[1].loader \notin JarLoaders THEN "none"
                           ELSE IF digest_checked(expected_hash) THEN "verified"
                           ELSE "unverified"
            /\ instPc' = IF request[1].loader = "vanilla" THEN "eula"
                         ELSE IF request[1].loader \in JarLoaders THEN "java"
                         ELSE "installer"
            /\ UNCHANGED <<instStage, instResult>>
       ELSE /\ InstallRaises("download", "DownloadError")
            /\ UNCHANGED <<artifact, jarCheck>>
    /\ UNCHANGED <<request, eulaFile, propsFile, before, java_required, javaLookup>>
    /\ UNCHANGED startVars
    /\ UNCHANGED <<procVars, logVars, dlVars, callVars, guiVars>>

\* run_checked (subprocess_utils.py 9-22) on the installer, which may or
\* may not have produced the loader's files before it exits
provider_run_checked(exitcode, produced) ==
    /\ instPc = "installer"
    /\ artifact' = (artifact \/ produced)
    /\ IF exitcode # 0
       THEN InstallRaises("installer", "InstallError")
       ELSE instPc' = "check" /\ UNCHANGED <<instStage, instResult>>
    /\ UNCHANGED <<request, eulaFile, propsFile, before, java_required, javaLookup>>
    /\ UNCHANGED startVars
    /\ UNCHANGED jarCheck
    /\ UNCHANGED <<procVars, logVars, dlVars, callVars, guiVars>>

\* The launch jar or the run scripts must exist (fabric.py 87-91,
\* quilt.py 83-87, forge.py 90-93, neoforge.py 93-96)
provider_check_artifact ==
    /\ instPc = "check"
    /\ IF ~artifact
       THEN InstallRaises("artifact", "InstallError")
       ELSE instPc' = "java" /\ UNCHANGED <<instStage, instResult>>
    /\ UNCHANGED <<request, eulaFile, propsFile, artifact, before, java_required,
                   javaLookup>>
    /\ UNCHANGED startVars
    /\ UNCHANGED jarCheck
    /\ UNCHANGED <<procVars, logVars, dlVars, callVars, guiVars>>

\* minecraft_java_requirement (minecraft.py 32-39) as the providers call it:
\* inside try/except in forge.py 95-100 and neoforge.py 98-104, directly in
\* paper_family.py 87, purpur.py 58, fabric.py 98 and quilt.py 94.  NeoForge
\* skips the call when it cannot guess the Minecraft version.
provider_java_requirement(outcome) ==
    /\ instPc = "java"
    /\ outcome = "skipped" =>
           request[1].loader = "neoforge" /\ request[1].minecraft_version = "latest"
    /\ javaLookup' = outcome
    /\ IF outcome \in {"DownloadError", "VersionResolutionError"}
          /\ request[1].loader \notin GuardedLookup
       THEN /\ InstallRaises("java", outcome)
            /\ UNCHANGED java_required
       ELSE /\ java_required' = IF outcome = "found" THEN Some(17) ELSE None
            /\ instPc' = "eula"
            /\ UNCHANGED <<instStage, instResult>>
    /\ UNCHANGED <<request, eulaFile, propsFile, artifact, before>>
    /\ UNCHANGED startVars
    /\ UNCHANGED jarCheck
    /\ UNCHANGED <<procVars, logVars, dlVars, callVars, guiVars>>

\* write_eula (manager.py 38)
install_write_eula(outcome) ==
    /\ instPc = "eula"
    /\ IF outcome = "ok"
       THEN /\ eulaFile' = Some(request[1].accept_eula)
            /\ instPc' = "props"
            /\ UNCHANGED <<instStage, instResult>>
       ELSE /\ InstallRaises("eula", "OSError")
            /\ UNCHANGED eulaFile
    /\ UNCHANGED <<request, propsFile, artifact, before, java_required, javaLookup>>
    /\ UNCHANGED startVars
    /\ UNCHANGED jarCheck
    /\ UNCHANGED <<procVars, logVars, dlVars, callVars, guiVars>>

install_write_properties_afresh(outcome) ==
    /\ instPc = "props"
    /\ IF outcome = "ok"
       THEN /\ propsFile' = Some(write_server_properties(
                                     None, OrAbsent(request[1].server_properties)))
            /\ instPc' = "manifest"
            /\ UNCHANGED <<instStage, instResult>>
       ELSE /\ InstallRaises("props", "OSError")
            /\ UNCHANGED propsFile
    /\ UNCHANGED <<request, eulaFile, artifact, before, java_required, javaLookup>>
    /\ UNCHANGED startVars
    /\ UNCHANGED jarCheck
    /\ UNCHANGED <<procVars, logVars, dlVars, callVars, guiVars>>

\* write_server_properties, called only for a non-empty mapping
\* (manager.py 39-43)
install_write_properties(outcome) ==
    /\ instPc = "props"
    /\ IF ~DictTruthy(request[1].server_properties)
       THEN /\ outcome = "ok"
            /\ instPc' = "manifest"
            /\ UNCHANGED <<propsFile, instStage, instResult>>
       ELSE IF outcome = "ok"
       THEN /\ propsFile' = Some(write_server_properties(
                                     propsFile, request[1].server_properties[1]))
            /\ instPc' = "manifest"
            /\ UNCHANGED <<instStage, instResult>>
       ELSE /\ InstallRaises("props", "OSError")
            /\ UNCHANGED propsFile
    /\ UNCHANGED <<request, eulaFile, artifact, before, java_required, javaLookup>>
    /\ UNCHANGED startVars
    /\ UNCHANGED jarCheck
    /\ UNCHANGED <<procVars, logVars, dlVars, callVars, guiVars>>

\* save_manifest and the return of the result (manager.py 45-55)
install_save_manifest(outcome) ==
    /\ instPc = "manifest"
    /\ IF outcome = "ok"
       THEN /\ manifestFile' = Some(Manifest(request[1].loader, java_required,
                                             ProviderStart(request[1].loader)))
            /\ instPc' = "done"
            /\ instResult' = Return(0)
            /\ UNCHANGED instStage
       ELSE /\ InstallRaises("manifest", "OSError")
            /\ UNCHANGED manifestFile
    /\ UNCHANGED <<request, eulaFile, propsFile, artifact, before, java_required,
                   javaLookup>>
    /\ UNCHANGED <<osName, fsLink, startArgs, startResult, spawned>>
    /\ UNCHANGED jarCheck
    /\ UNCHANGED <<procVars, logVars, dlVars, callVars, guiVars>>

IoOutcomes == {"ok", "OSError"}
LookupOutcomes ==
    {"found", "nofield", "skipped", "DownloadError", "VersionResolutionError"}

InstNext ==
    \/ \E req \in Requests : install_begin(req)
    \/ \E outcome \in {"ok", "DownloadError", "VersionResolutionError", "RuntimeError"},
          java \in {None, Some(17)} : provider_resolve(outcome, java)
    \/ \E outcome \in {"ok", "DownloadError"}, expected_hash \in MetadataDigests :
           provider_download(outcome, expected_hash)
    \/ \E exitcode \in {0, 1}, produced \in BOOLEAN :
           provider_run_checked(exitcode, produced)
    \/ provider_check_artifact
    \/ \E outcome \in LookupOutcomes : provider_java_requirement(outcome)
    \/ \E outcome \in IoOutcomes : install_write_eula(outcome)
    \/ \E outcome \in IoOutcomes : install_write_properties(outcome)
    \/ \E outcome \in IoOutcomes : install_save_manifest(outcome)

InitInstall ==
    /\ ProcInit /\ LogIdle /\ DlIdle /\ GuiIdle /\ CallIdle
    /\ osName = "posix"
    /\ fsLink = FALSE
    /\ startArgs = None
    /\ startResult = NoResult
    /\ spawned = None
    /\ \E dir \in InstanceDirs :
           /\ manifestFile = dir.manifest
           /\ eulaFile = dir.eula
           /\ propsFile = dir.props
           /\ artifact = dir.artifact
    /\ instPc = "idle"
    /\ request = None
    /\ before = None
    /\ java_required = None
    /\ javaLookup = "none"
    /\ instStage = "none"
    /\ jarCheck = "none"
    /\ instResult = NoResult

SpecInstall == InitInstall /\ [][InstNext]_vars

ProviderStages == {"resolve", "download", "installer", "artifact", "java"}

\* The errors the claim names for each failing provider step.
StageErrors(stage) ==
    IF stage \in {"installer", "artifact"} THEN {"InstallError"}
    ELSE IF stage = "download" THEN {"DownloadError"}
    ELSE {"DownloadError", "VersionResolutionError", "RuntimeError"}

\* C2: when a step of the provider fails, install ends by raising that
\* step's error and the manifest, the eula and server.properties are what
\* they were before the call; and the manifest differs from what it was
\* before the call only once install has returned, with the eula written and
\* no step having raised.
C2_ProviderFailureWritesNothing ==
    /\ instStage \in ProviderStages =>
           /\ instPc = "done"
           /\ instResult.kind = "raise"
           /\ instResult.exc \in StageErrors(instStage)
           /\ manifestFile = before[1].manifest
           /\ eulaFile = before[1].eula
           /\ propsFile = before[1].props
    /\ (before # None /\ manifestFile # before[1].manifest) =>
           /\ instPc = "done"
           /\ instStage = "none"
           /\ instResult.kind = "return"
           /\ eulaFile = Some(request[1].accept_eula)

\* C2 witness: the Forge installer wrote its files and exited non-zero in a
\* directory that already held a manifest, and the manifest is unchanged.
C2_Witness ==
    /\ instStage = "installer"
    /\ request[1].loader = "forge"
    /\ artifact
    /\ instResult = Raise("InstallError")
    /\ before[1].manifest # None
    /\ manifestFile = before[1].manifest

\* C5: a failed Java-requirement lookup (fetch error, or version missing from
\* the Mojang manifest) never makes install raise, and an install that
\* returns after it records java_required as None.
C5_JavaLookupFailureNeverAborts ==
    javaLookup \in {"DownloadError", "VersionResolutionError"} =>
        /\ instStage # "java"
        /\ (instPc = "done" /\ instStage = "none") =>
               manifestFile[1].java_required = None

-----------------------------------------------------------------------------
(* ServerManager.build_start_command (manager.py 60-83) called on its own: *)
(* the host, the manifest's start commands and the arguments are drawn,    *)
(* the call is made once.                                                  *)

MaxBuildLen == 2    \* tokens in a drawn start-command template

RECURSIVE Repeat(_, _)
Repeat(x, n) == IF n = 0 THEN <<>> ELSE <<x>> \o Repeat(x, n - 1)

Tok_empty == <<>>
Tok_blank == <<" ">>
Tok_long == <<"LONG">>
Tok_nul == <<"a", "NUL", "b">>
Tok_cr == <<"a", "\r">>
Tok_lf == <<"\n", "a">>
BuildTokens ==
    {Tok_java, Tok_cmd, Tok_nogui, Tok_empty, Tok_blank, Tok_long, Tok_nul,
     Tok_cr, Tok_lf} \cup ShellTokens

\* Templates of up to MaxBuildLen tokens, and the two around the limit of
\* 80 tokens.
BuildTemplates ==
    SeqsUpTo(BuildTokens, MaxBuildLen)
    \cup {<<Tok_java>> \o Repeat(Tok_nogui, 79), <<Tok_java>> \o Repeat(Tok_nogui, 80)}

WindowsTemplate == <<Tok_java, <<"win">>>>
PosixTemplate == <<Tok_java, <<"unix">>>>

BuildStartCommands ==
    {[default |-> t, windows |-> None, posix |-> None] : t \in BuildTemplates}
    \cup {[default |-> JarTemplate, windows |-> Some(t), posix |-> Some(PosixTemplate)] :
             t \in BuildTemplates}
    \cup {[default |-> t, windows |-> Some(WindowsTemplate), posix |-> Some(<<>>)] :
             t \in BuildTemplates}

\* xms, xmx and jvm_args are optional: None, or a value that may be empty.
BuildCalls ==
    {[java_path |-> <<"java">>, xms |-> None, xmx |-> None, jvm_args |-> None],
     [java_path |-> <<"java">>, xms |-> Some(<<"1G">>), xmx |-> Some(<<"2G">>),
      jvm_args |-> Some(<<<<"-Dfoo=1">>, <<"-Dbar=2">>>>)],
     [java_path |-> <<"java">>, xms |-> Some(<<>>), xmx |-> Some(<<"2G">>),
      jvm_args |-> Some(<<>>)],
     [java_path |-> <<" ">>, xms |-> None, xmx |-> None, jvm_args |-> None]}

\* Python's "if value:" on an optional string or list: the value, or the
\* empty one when it is None.
OrEmpty(opt) == IF opt = None THEN <<>> ELSE opt[1]

\* build_start_command (manager.py 60-83) with its validation: the argv, or
\* the ManifestError of _validate_java_path and _validate_start_template
BuildStartCommand(start_commands, java_path, xms, xmx, jvm_args) ==
    LET raw_command == for_platform(start_commands)
    IN  IF ~validate_java_path(java_path) \/ ~validate_start_template(raw_command)
        THEN Raised("ManifestError")
        ELSE Returned(build_start_command(raw_command, java_path, OrEmpty(xms),
                                          OrEmpty(xmx), OrEmpty(jvm_args)))

build_call ==
    /\ callArgs # None
    /\ callResult.kind = "none"
    /\ callResult' = BuildStartCommand(callArgs[1].start, callArgs[1].java_path,
                                       callArgs[1].xms, callArgs[1].xmx,
                                       callArgs[1].jvm_args)
    /\ UNCHANGED <<callArgs, callEffects>>
    /\ UNCHANGED <<procVars, logVars, dlVars, startVars, instVars, guiVars>>

BuildNext == build_call

InitBuild ==
    /\ ProcInit /\ LogIdle /\ DlIdle /\ GuiIdle /\ InstIdle
    /\ osName \in {"nt", "posix"}
    /\ fsLink = FALSE
    /\ manifestFile = None
    /\ startArgs = None
    /\ startResult = NoResult
    /\ spawned = None
    /\ callArgs \in {Some([start |-> sc, java_path |-> c.java_path, xms |-> c.xms,
                           xmx |-> c.xmx, jvm_args |-> c.jvm_args]) :
                        sc \in BuildStartCommands, c \in BuildCalls}
    /\ callResult = NoCall
    /\ callEffects = <<>>

SpecBuild == InitBuild /\ [][BuildNext]_vars

\* The sequence the host selects, in the words of the claims: windows on an
\* "nt" host when present and non-empty, posix on another host when present
\* and non-empty, default otherwise.
SelectedTemplate ==
    LET sc == callArgs[1].start
    IN  IF osName = "nt"
        THEN (IF sc.windows # None /\ Len(sc.windows[1]) > 0
              THEN sc.windows[1] ELSE sc.default)
        ELSE (IF sc.posix # None /\ Len(sc.posix[1]) > 0
              THEN sc.posix[1] ELSE sc.default)

\* The tokens of the model that the claim calls bad.
RejectedTokens == {Tok_empty, Tok_long, Tok_nul, Tok_cr, Tok_lf} \cup ShellTokens

\* C11: build_start_command raises ManifestError, and so returns no argv,
\* when the selected template is empty, has more than 80 tokens, does not
\* start with exactly {java}, or holds a token that is empty, longer than
\* 1024 characters, contains NUL, CR or LF, or is one of | || && ;.
C11_BadTemplateRejected ==
    callResult.kind # "none" =>
        LET t == SelectedTemplate
        IN  (\/ t = <<>>
             \/ Len(t) > 80
             \/ t[1] # Tok_java
             \/ \E i \in 1..Len(t) : t[i] \in RejectedTokens)
            => callResult = Raised("ManifestError")

\* C11 witness: a template with a shell token after {java} was refused.
C11_Witness ==
    /\ callArgs # None
    /\ SelectedTemplate = <<Tok_java, <<"&&">>>>
    /\ callArgs[1].java_path = <<"java">>
    /\ callResult = Raised("ManifestError")

\* The -Xms and -Xmx tokens and the JVM arguments of the call, by whether
\* an argument counts when it is present (given) or when it is non-empty.
MemoryToken(flag, opt, counts) ==
    IF counts THEN <<<<flag>> \o opt[1]>> ELSE <<>>
ExtraGiven ==
    LET c == callArgs[1]
    IN  MemoryToken("-Xms", c.xms, c.xms # None)
        \o MemoryToken("-Xmx", c.xmx, c.xmx # None)
        \o (IF c.jvm_args # None THEN c.jvm_args[1] ELSE <<>>)
ExtraNonEmpty ==
    LET c == callArgs[1]
    IN  MemoryToken("-Xms", c.xms, c.xms # None /\ c.xms # Some(<<>>))
        \o MemoryToken("-Xmx", c.xmx, c.xmx # None /\ c.xmx # Some(<<>>))
        \o (IF c.jvm_args # None THEN c.jvm_args[1] ELSE <<>>)

\* C12 as stated: the argv is java_path, -Xms<xms> if xms is given,
\* -Xmx<xmx> if xmx is given, the jvm_args in order, then the selected
\* template without its first token.
C12_ArgvIsJavaExtraRest ==
    callResult.kind = "return" =>
        callResult.value =
            <<callArgs[1].java_path>> \o ExtraGiven \o Tail(SelectedTemplate)

\* C12 amended: the argv is java_path, -Xms<xms> if xms is non-empty,
\* -Xmx<xmx> if xmx is non-empty, the jvm_args in order, then the selected
\* template without its first token and with every further {java} token
\* replaced by java_path.
C12_ArgvWithEveryJavaSubstituted ==
    callResult.kind = "return" =>
        LET rest == Tail(SelectedTemplate)
        IN  callResult.value =
                <<callArgs[1].java_path>> \o ExtraNonEmpty
                \o [i \in 1..Len(rest) |->
                        IF rest[i] = Tok_java THEN callArgs[1].java_path ELSE rest[i]]

\* C12 witness: on an "nt" host the windows sequence was selected over a
\* different default and the memory and JVM arguments follow the java path.
C12_Witness ==
    /\ callArgs # None
    /\ osName = "nt"
    /\ callArgs[1].start.default = <<Tok_java, Tok_java>>
    /\ callResult.kind = "return"
    /\ callResult.value = <<<<"java">>, <<"-Xms", "1G">>, <<"-Xmx", "2G">>,
                            <<"-Dfoo=1">>, <<"-Dbar=2">>, <<"win">>>>

\* An install call has returned its result.
InstallSucceeded == instPc = "done" /\ instResult.kind = "return"

\* C13: after a successful install into a directory that had no
\* server.properties, the directory has a server.properties with
\* whitelist=true, unless the caller's overrides set whitelist themselves;
\* this includes requests without overrides.
C13_FreshInstallWhitelisted ==
    (InstallSucceeded /\ before[1].props = None
        /\ OrAbsent(request[1].server_properties)["whitelist"] = Absent) =>
        propsFile # None /\ propsFile[1]["whitelist"] = "true"

\* C14: after a successful install over an existing server.properties, each
\* key the caller overrides has the caller's value and every other key has
\* the value it had before the call.
C14_ExistingKeysPreserved ==
    (InstallSucceeded /\ before[1].props # None) =>
        /\ propsFile # None
        /\ \A k \in PropKeys :
               propsFile[1][k] =
                   IF OrAbsent(request[1].server_properties)[k] # Absent
                   THEN request[1].server_properties[1][k]
                   ELSE before[1].props[1][k]

\* C14 witness: whitelist=false and motd=hi were on disk, the caller
\* overrode motd only: whitelist is still false and motd is the caller's.
C14_Witness ==
    /\ InstallSucceeded
    /\ before[1].props = Some(PropsOf("false", "hi"))
    /\ request[1].server_properties = Some(PropsOf(Absent, "hello"))
    /\ propsFile = Some(PropsOf("false", "hello"))

-----------------------------------------------------------------------------
(* The fetches of HttpClient: get_json (http.py 36-51), get_text (53-64)   *)
(* and download (66-119).  Each builds its request with _request (32-34),  *)
(* which validates the url, and hands it to urllib.request.urlopen.  One   *)
(* fetch is made on a drawn url; what the network answers is chosen        *)
(* freely.                                                                 *)

FetchOps == {"get_json", "get_text", "download"}

\* What can follow urlopen: a payload, a URLError, a response over the size
\* limit, a payload that is not JSON, a digest mismatch.
FetchOutcomes(op) ==
    {"ok", "URLError", "too_large"}
    \cup (IF op = "get_json" THEN {"bad_json"} ELSE {})
    \cup (IF op = "download" THEN {"hash_mismatch"} ELSE {})

fetch_call(outcome) ==
    /\ callArgs # None
    /\ callResult.kind = "none"
    /\ outcome \in FetchOutcomes(callArgs[1].op)
    /\ IF ~validate_url(callArgs[1].url)
       THEN /\ outcome = "ok"
            /\ callResult' = Raised("DownloadError")
            /\ callEffects' = callEffects
       ELSE /\ callEffects' = Append(callEffects, "urlopen")
            /\ callResult' = IF outcome = "ok" THEN Returned("payload")
                             ELSE Raised("DownloadError")
    /\ UNCHANGED callArgs
    /\ UNCHANGED <<procVars, logVars, dlVars, startVars, instVars, guiVars>>

FetchNext == \E outcome \in {"ok", "URLError", "too_large", "bad_json", "hash_mismatch"} :
                 fetch_call(outcome)

InitFetch ==
    /\ ProcInit /\ LogIdle /\ DlIdle /\ GuiIdle /\ StartIdle /\ InstIdle
    /\ callArgs \in {Some([op |-> op, url |-> url]) : op \in FetchOps, url \in Urls}
    /\ callResult = NoCall
    /\ callEffects = <<>>

SpecFetch == InitFetch /\ [][FetchNext]_vars

\* C15: a fetch of a url whose scheme is not https, or whose host is or
\* resolves to a loopback, private, link-local or multicast address, raises
\* DownloadError and no network request has been issued.
C15_UnsafeUrlNeverRequested ==
    (callResult.kind # "none"
        /\ \/ callArgs[1].url.scheme \notin {"https", "HTTPS"}
           \/ /\ callArgs[1].url.host \in {"name", "ip"}
              /\ callArgs[1].url.addr \in
                     {"loopback", "private", "link_local", "multicast"}) =>
        callResult = Raised("DownloadError") /\ callEffects = <<>>

\* C16: whenever the install of a jar-based loader (vanilla, paper, folia,
\* purpur) returns, the server.jar it downloaded was checked against a
\* digest from the upstream metadata.
C16_InstalledJarVerified ==
    (InstallSucceeded /\ request[1].loader \in JarLoaders) =>
        jarCheck = "verified"

-----------------------------------------------------------------------------
(* Version strings and ForgeProvider._resolve_forge_version                *)
(* (forge.py 36-62).                                                       *)
(*                                                                         *)
(* A Forge version "1.21.1-52" or "1.21.1-52-beta" is the record of its    *)
(* Minecraft version, its Forge number and its pre-release marker ("" for  *)
(* none).  It starts with "M-" exactly when its Minecraft version is M.    *)
(* No two versions of one listing differ in the marker alone, so the       *)
(* order of a listing is the numeric order of the components.              *)

MaxForgeNumber == 2     \* Forge numbers per Minecraft version

McListed == {"1.20.1", "1.21.1"}
McKey(mc) ==
    IF mc = "1.20.1" THEN <<1, 20, 1>>
    ELSE IF mc = "1.21.1" THEN <<1, 21, 1>>
    ELSE <<9, 9>>
Markers == {"", "beta"}
ForgeVersions ==
    [mc : McListed, n : 1..MaxForgeNumber, tag : Markers]

\* The listings the metadata can hold: any versions, no two of them with
\* the same numbers.
ForgeListings ==
    {S \in SUBSET ForgeVersions :
        \A v \in S, w \in S : (v.mc = w.mc /\ v.n = w.n) => v = w}

\* is_stable_version: no pre-release marker in the string
is_stable_version(v) == v.tag = ""

\* version_key: the dot/hyphen-separated components, numbers as numbers
version_key(v) == McKey(v.mc) \o <<v.n>>

\* The order of two keys: component by component, a proper prefix first.
RECURSIVE KeyLess(_, _)
KeyLess(a, b) ==
    IF b = <<>> THEN FALSE
    ELSE IF a = <<>> THEN TRUE
    ELSE IF a[1] # b[1] THEN a[1] < b[1]
    ELSE KeyLess(Tail(a), Tail(b))

\* pick_latest_version without the stable filter
pick_latest_version_unfiltered(values, stable_only) ==
    IF values = {} THEN Raised("VersionResolutionError")
    ELSE Returned(CHOOSE v \in values :
             \A w \in values : w = v \/ KeyLess(version_key(w), version_key(v)))

\* pick_latest_version: the maximum by version_key of the stable values
\* when stable_only and any is stable, of all values otherwise;
\* VersionResolutionError on no values
pick_latest_version(values, stable_only) ==
    LET stable == {v \in values : is_stable_version(v)}
        pool == IF stable_only /\ stable # {} THEN stable ELSE values
    IN  IF pool = {} THEN Raised("VersionResolutionError")
        ELSE Returned(CHOOSE v \in pool :
                 \A w \in pool : w = v \/ KeyLess(version_key(w), version_key(v)))

\* _resolve_forge_version (forge.py 36-62)
resolve_forge_version_trusts_release(req, versions, release_version) ==
    IF req.loader_version # None
    THEN (IF req.loader_version[1] \notin versions
          THEN Raised("VersionResolutionError")
          ELSE Returned(req.loader_version[1]))
    ELSE IF req.minecraft_version = "latest"
    THEN (IF release_version # None
          THEN Returned(release_version[1])
          ELSE pick_latest_version({v \in versions : is_stable_version(v)}, FALSE))
    ELSE LET candidates == {v \in versions : v.mc = req.minecraft_version}
             stable == {v \in candidates : is_stable_version(v)}
         IN  IF candidates = {} THEN Raised("VersionResolutionError")
             ELSE pick_latest_version(IF stable # {} THEN stable ELSE candidates, FALSE)
resolve_forge_version(req, versions, release_version) ==
    IF req.loader_version # None
    THEN (IF req.loader_version[1] \notin versions
          THEN Raised("VersionResolutionError")
          ELSE Returned(req.loader_version[1]))
    ELSE IF req.minecraft_version = "latest"
    THEN (IF release_version # None /\ is_stable_version(release_version[1])
          THEN Returned(release_version[1])
          ELSE pick_latest_version({v \in versions : is_stable_version(v)}, FALSE))
    ELSE LET candidates == {v \in versions : v.mc = req.minecraft_version}
             stable == {v \in candidates : is_stable_version(v)}
         IN  IF candidates = {} THEN Raised("VersionResolutionError")
             ELSE pick_latest_version(IF stable # {} THEN stable ELSE candidates, FALSE)

\* The requests of the model: "latest" or a Minecraft version, listed or
\* not, with or without an explicit Forge version.
ForgeRequests ==
    [minecraft_version : {"latest", "1.20.1", "1.21.1", "9.9"},
     loader_version : {None, Some([mc |-> "1.20.1", n |-> 1, tag |-> ""])}]

forge_call ==
    /\ callArgs # None
    /\ callResult.kind = "none"
    /\ callResult' = resolve_forge_version(callArgs[1].request, callArgs[1].versions,
                                           callArgs[1].release_version)
    /\ UNCHANGED <<callArgs, callEffects>>
    /\ UNCHANGED <<procVars, logVars, dlVars, startVars, instVars, guiVars>>

ForgeNext == forge_call

\* _metadata (forge.py 23-34) never hands over an empty listing; the
\* release it reports is any version, listed or not, or missing.
InitForge ==
    /\ ProcInit /\ LogIdle /\ DlIdle /\ GuiIdle /\ StartIdle /\ InstIdle
    /\ callArgs \in {Some([request |-> req, versions |-> S, release_version |-> r]) :
                        req \in ForgeRequests,
                        S \in ForgeListings \ {{}},
                        r \in {None} \cup {Some(v) : v \in ForgeVersions}}
    /\ callResult = NoCall
    /\ callEffects = <<>>

SpecForge == InitForge /\ [][ForgeNext]_vars

\* The highest version of a pool by version_key
IsHighest(v, pool) ==
    /\ v \in pool
    /\ \A w \in pool : w = v \/ KeyLess(version_key(w), version_key(v))

StableOf(pool) == {v \in pool : is_stable_version(v)}
PrefixedBy(mc, pool) == {v \in pool : v.mc = mc}

ForgeResolved ==
    /\ callArgs # None
    /\ callResult.kind # "none"
    /\ callArgs[1].request.loader_version = None

\* The explicit-Minecraft-version half of C20, shared by both statements:
\* the highest stable "M-" version, the highest of all "M-" versions when
\* none is stable, VersionResolutionError when there is no "M-" version.
ForgeExplicitRule ==
    LET a == callArgs[1]
        cand == PrefixedBy(a.request.minecraft_version, a.versions)
    IN  IF cand = {} THEN callResult = Raised("VersionResolutionError")
        ELSE /\ callResult.kind = "return"
             /\ IsHighest(callResult.value,
                          IF StableOf(cand) # {} THEN StableOf(cand) ELSE cand)

\* C20 (as written): with no explicit loader version, "latest" gives the
\* release version the metadata reports whenever it reports one, else the
\* highest stable version; an explicit Minecraft version M gives the
\* highest stable "M-" version (the highest "M-" version when none is
\* stable) and VersionResolutionError when no version has that prefix.
C20_ForgeReleaseWhenReported ==
    ForgeResolved =>
        LET a == callArgs[1]
        IN  IF a.request.minecraft_version = "latest"
            THEN IF a.release_version # None
                 THEN callResult = Returned(a.release_version[1])
                 ELSE StableOf(a.versions) # {} =>
                          /\ callResult.kind = "return"
                          /\ IsHighest(callResult.value, StableOf(a.versions))
            ELSE ForgeExplicitRule

\* C20 (amended): with no explicit loader version, "latest" gives the
\* release version the metadata reports when one is reported and it is
\* stable, else the highest stable version; an explicit Minecraft version
\* M gives the highest stable "M-" version (the highest "M-" version when
\* none is stable) and VersionResolutionError when no version has that
\* prefix.
C20_ForgeStableReleaseElseHighest ==
    ForgeResolved =>
        LET a == callArgs[1]
        IN  IF a.request.minecraft_version = "latest"
            THEN IF a.release_version # None /\ is_stable_version(a.release_version[1])
                 THEN callResult = Returned(a.release_version[1])
                 ELSE StableOf(a.versions) # {} =>
                          /\ callResult.kind = "return"
                          /\ IsHighest(callResult.value, StableOf(a.versions))
            ELSE ForgeExplicitRule

\* C20 witness: "latest" was resolved with an unstable release reported
\* beside a stable listed version, and the stable version was returned.
C20_Witness ==
    /\ ForgeResolved
    /\ callArgs[1].request.minecraft_version = "latest"
    /\ callArgs[1].release_version # None
    /\ ~is_stable_version(callArgs[1].release_version[1])
    /\ callResult.kind = "return"
    /\ callResult.value # callArgs[1].release_version[1]
    /\ is_stable_version(callResult.value)

-----------------------------------------------------------------------------
(* PaperFamilyProvider._resolve_build (paper_family.py 34-57).             *)
(*                                                                         *)
(* The builds listing is the sequence the API returned; a build is the     *)
(* record of its numeric id and its channel ("none" for a build without    *)
(* a channel).                                                             *)

MaxBuilds == 3      \* builds in one listing
MaxBuildId == 2     \* build ids 1..MaxBuildId

Channels == {"default", "experimental", "none"}
PaperBuilds == [build : 1..MaxBuildId, channel : Channels]
PaperListings == SeqsUpTo(PaperBuilds, MaxBuilds)

\* max(pool, key=lambda b: int(b["build"])): the first build of the pool
\* with the largest id
MaxByBuild(pool) ==
    pool[CHOOSE i \in 1..Len(pool) :
            \A j \in 1..Len(pool) :
                /\ pool[j].build <= pool[i].build
                /\ j < i => pool[j].build < pool[i].build]

IsDefault(b) == b.channel = "default"

\* The first build of the listing with the requested id (lines 45-49)
FirstWithId(builds, id) ==
    builds[CHOOSE i \in 1..Len(builds) :
              /\ builds[i].build = id
              /\ \A j \in 1..(i - 1) : builds[j].build # id]

\* _resolve_build
resolve_build_any_channel(build, builds) ==
    IF builds = <<>> THEN Raised("VersionResolutionError")
    ELSE IF build # None
    THEN (IF \E i \in 1..Len(builds) : builds[i].build = build[1]
          THEN Returned(FirstWithId(builds, build[1]))
          ELSE Raised("VersionResolutionError"))
    ELSE Returned(MaxByBuild(builds))
resolve_build(build, builds) ==
    IF builds = <<>> THEN Raised("VersionResolutionError")
    ELSE IF build # None
    THEN (IF \E i \in 1..Len(builds) : builds[i].build = build[1]
          THEN Returned(FirstWithId(builds, build[1]))
          ELSE Raised("VersionResolutionError"))
    ELSE LET default_builds == SelectSeq(builds, IsDefault)
         IN  Returned(MaxByBuild(IF default_builds # <<>> THEN default_builds
                                 ELSE builds))

\* request.build: no build, or a build id, listed or not
RequestedBuilds == {None} \cup {Some(n) : n \in 1..(MaxBuildId + 1)}

paper_build_call ==
    /\ callArgs # None
    /\ callResult.kind = "none"
    /\ callResult' = resolve_build(callArgs[1].build, callArgs[1].builds)
    /\ UNCHANGED <<callArgs, callEffects>>
    /\ UNCHANGED <<procVars, logVars, dlVars, startVars, instVars, guiVars>>

PaperNext == paper_build_call

InitPaper ==
    /\ ProcInit /\ LogIdle /\ DlIdle /\ GuiIdle /\ StartIdle /\ InstIdle
    /\ callArgs \in {Some([build |-> b, builds |-> l]) :
                        b \in RequestedBuilds, l \in PaperListings}
    /\ callResult = NoCall
    /\ callEffects = <<>>

SpecPaper == InitPaper /\ [][PaperNext]_vars

BuildsOf(l) == {l[i] : i \in 1..Len(l)}

\* C19: with no explicit build, the selected build is a build of the
\* listing with the maximum id among the builds of channel "default", or
\* among all builds when none has channel "default"; an empty listing
\* gives VersionResolutionError.
C19_DefaultChannelMaxBuild ==
    (callArgs # None /\ callResult.kind # "none" /\ callArgs[1].build = None) =>
        LET all == BuildsOf(callArgs[1].builds)
            defaults == {b \in all : b.channel = "default"}
            pool == IF defaults # {} THEN defaults ELSE all
        IN  IF all = {} THEN callResult = Raised("VersionResolutionError")
            ELSE /\ callResult.kind = "return"
                 /\ callResult.value \in pool
                 /\ \A b \in pool : b.build <= callResult.value.build

\* C19 witness: a default build was selected although a build of another
\* channel has a larger id.
C19_Witness ==
    /\ callArgs # None
    /\ callArgs[1].build = None
    /\ callResult.kind = "return"
    /\ callResult.value.channel = "default"
    /\ \E b \in BuildsOf(callArgs[1].builds) :
          b.channel # "default" /\ b.build > callResult.value.build

-----------------------------------------------------------------------------
(* ServerManifest.to_dict / from_dict and StartCommands.to_dict /          *)
(* from_dict (models.py 23-36, 66-95).                                     *)
(*                                                                         *)
(* A Python scalar is tagged with its type, so that str() and int() are    *)
(* conversions; an optional field is None or Some(value); a list is a      *)
(* sequence.                                                               *)

PyStr(s) == [str |-> s]
PyInt(n) == [int |-> n]
IsInt(x) == DOMAIN x = {"int"}

\* The decimal numerals of the integers of the model
Numeral(n) ==
    IF n = 1 THEN "1" ELSE IF n = 2 THEN "2" ELSE IF n = 3 THEN "3"
    ELSE IF n = 17 THEN "17" ELSE "21"
Number(s) ==
    IF s = "1" THEN 1 ELSE IF s = "2" THEN 2 ELSE IF s = "3" THEN 3
    ELSE IF s = "17" THEN 17 ELSE 21

\* str(x) and int(x)
py_str(x) == IF IsInt(x) THEN PyStr(Numeral(x.int)) ELSE x
py_int(x) == IF IsInt(x) THEN x ELSE PyInt(Number(x.str))

\* x if x else None, for an optional list
ListOrNone(opt) == IF Truthy(opt) THEN opt ELSE None

\* StartCommands.to_dict (models.py 23-28)
StartCommands_to_dict_without_windows(sc) ==
    [default |-> sc.default,
     windows |-> None,
     posix   |-> ListOrNone(sc.posix)]
StartCommands_to_dict(sc) ==
    [default |-> sc.default,
     windows |-> ListOrNone(sc.windows),
     posix   |-> ListOrNone(sc.posix)]

\* StartCommands.from_dict (models.py 30-36)
StartCommands_from_dict(data) ==
    [default |-> data.default,
     windows |-> ListOrNone(data.windows),
     posix   |-> ListOrNone(data.posix)]

\* ServerManifest.to_dict (models.py 66-77)
ServerManifest_to_dict(m) ==
    [schema_version   |-> m.schema_version,
     loader           |-> m.loader,
     minecraft_version |-> m.minecraft_version,
     loader_version   |-> m.loader_version,
     build            |-> m.build,
     java_required    |-> m.java_required,
     start            |-> StartCommands_to_dict(m.start),
     downloaded_urls  |-> m.downloaded_urls,
     installed_at_utc |-> m.installed_at_utc]

\* ServerManifest.from_dict (models.py 79-95)
ServerManifest_from_dict(data) ==
    [schema_version   |-> py_int(data.schema_version),
     loader           |-> py_str(data.loader),
     minecraft_version |-> py_str(data.minecraft_version),
     loader_version   |-> IF data.loader_version # None
                          THEN Some(py_str(data.loader_version[1])) ELSE None,
     build            |-> IF data.build # None
                          THEN Some(py_str(data.build[1])) ELSE None,
     java_required    |-> IF data.java_required # None
                          THEN Some(py_int(data.java_required[1])) ELSE None,
     start            |-> StartCommands_from_dict(data.start),
     downloaded_urls  |-> [i \in 1..Len(data.downloaded_urls) |->
                              py_str(data.downloaded_urls[i])],
     installed_at_utc |-> py_str(data.installed_at_utc)]

\* The start commands of the manifests: every platform sequence missing,
\* empty or present.
PlatformSeqs == {None, Some(<<>>), Some(<<Tok_java, AtOk, Tok_nogui>>)}
ManifestStarts ==
    [default : {JarTemplate}, windows : PlatformSeqs, posix : PlatformSeqs]

\* The manifests of the model, every field of its declared type
\* (models.py 52-64).
ServerManifests ==
    [schema_version   : {PyInt(1)},
     loader           : {PyStr("paper")},
     minecraft_version : {PyStr("1.21.11")},
     loader_version   : {None, Some(PyStr("x"))},
     build            : {None, Some(PyStr("17"))},
     java_required    : {None, Some(PyInt(21))},
     start            : ManifestStarts,
     downloaded_urls  : {<<>>, <<PyStr("https://example.invalid/server.jar")>>},
     installed_at_utc : {PyStr(""), PyStr("2026-01-01T00:00:00+00:00")}]

\* payload = manifest.to_dict()
manifest_to_dict ==
    /\ callArgs # None
    /\ callEffects = <<>>
    /\ callEffects' = <<ServerManifest_to_dict(callArgs[1])>>
    /\ UNCHANGED <<callArgs, callResult>>
    /\ UNCHANGED <<procVars, logVars, dlVars, startVars, instVars, guiVars>>

\* loaded = ServerManifest.from_dict(payload)
manifest_from_dict ==
    /\ callEffects # <<>>
    /\ callResult.kind = "none"
    /\ callResult' = Returned(ServerManifest_from_dict(callEffects[1]))
    /\ UNCHANGED <<callArgs, callEffects>>
    /\ UNCHANGED <<procVars, logVars, dlVars, startVars, instVars, guiVars>>

ManifestNext == manifest_to_dict \/ manifest_from_dict

InitManifest ==
    /\ ProcInit /\ LogIdle /\ DlIdle /\ GuiIdle /\ InstIdle
    /\ osName \in {"nt", "posix"}
    /\ fsLink = FALSE
    /\ manifestFile = None
    /\ startArgs = None
    /\ startResult = NoResult
    /\ spawned = None
    /\ callArgs \in {Some(m) : m \in ServerManifests}
    /\ callResult = NoCall
    /\ callEffects = <<>>

SpecManifest == InitManifest /\ [][ManifestNext]_vars

RoundTripDone == callArgs # None /\ callResult.kind = "return"

\* The fields of a manifest other than start
ScalarFieldsEqual(a, b) ==
    /\ a.schema_version = b.schema_version
    /\ a.loader = b.loader
    /\ a.minecraft_version = b.minecraft_version
    /\ a.loader_version = b.loader_version
    /\ a.build = b.build
    /\ a.java_required = b.java_required
    /\ a.downloaded_urls = b.downloaded_urls
    /\ a.installed_at_utc = b.installed_at_utc

\* C18 (as written): to_dict followed by from_dict reproduces every field
\* of the manifest exactly, the three StartCommands sequences included,
\* and for_platform selects the same sequence before and after.
C18_RoundTripExact ==
    RoundTripDone =>
        /\ ScalarFieldsEqual(callResult.value, callArgs[1])
        /\ callResult.value.start = callArgs[1].start
        /\ for_platform(callResult.value.start) = for_platform(callArgs[1].start)

\* C18 (amended): to_dict followed by from_dict reproduces every field of
\* the manifest exactly, except that an empty windows or posix sequence
\* comes back as None; for_platform selects the same sequence before and
\* after.
C18_RoundTripUpToEmptyPlatform ==
    RoundTripDone =>
        LET a == callArgs[1]
            b == callResult.value
        IN  /\ ScalarFieldsEqual(b, a)
            /\ b.start.default = a.start.default
            /\ b.start.windows = (IF a.start.windows = Some(<<>>) THEN None
                                  ELSE a.start.windows)
            /\ b.start.posix = (IF a.start.posix = Some(<<>>) THEN None
                                ELSE a.start.posix)
            /\ for_platform(b.start) = for_platform(a.start)

\* C18 witness: a manifest with a windows sequence, an empty posix
\* sequence, a build and a Java requirement went through the round trip.
C18_Witness ==
    /\ RoundTripDone
    /\ Truthy(callArgs[1].start.windows)
    /\ callArgs[1].start.posix = Some(<<>>)
    /\ callArgs[1].build # None
    /\ callArgs[1].java_required # None
    /\ callResult.value.start.windows = callArgs[1].start.windows
    /\ callResult.value.start.posix = None

-----------------------------------------------------------------------------
(* Version resolution of the providers' install methods, against one       *)
(* upstream: vanilla.py 14-31, minecraft.py 11-29, paper_family.py 21-83,  *)
(* purpur.py 18-53, fabric.py 19-66, quilt.py 19-62, forge.py 64-76,       *)
(* neoforge.py 35-75.                                                      *)

\* The upstream listings
LatestMc == "1.21.1"
UpstreamBuilds ==
    <<[build |-> 1, channel |-> "default"], [build |-> 2, channel |-> "experimental"]>>
PurpurLatestBuild == 2
UpstreamLoaders ==
    <<[version |-> "0.16", stable |-> TRUE], [version |-> "0.15", stable |-> TRUE]>>
InstallerVersion == PyStr("1.0.1")
UpstreamForge ==
    {[mc |-> "1.20.1", n |-> 1, tag |-> ""],
     [mc |-> "1.21.1", n |-> 1, tag |-> ""],
     [mc |-> "1.21.1", n |-> 2, tag |-> "beta"]}
UpstreamRelease == Some([mc |-> "1.21.1", n |-> 1, tag |-> ""])
AbsentForge == [mc |-> "1.20.1", n |-> 2, tag |-> ""]

\* The outcome of an install: its result and the requests it made
Outcome(result, effects) == [result |-> result, effects |-> effects]
\* The version fields of the manifest of a finished install
Installed(mc, lv, build) ==
    [minecraft_version |-> mc, loader_version |-> lv, build |-> build]

\* _resolve_mc_version (paper_family.py 21-32, purpur.py 18-29,
\* fabric.py 19-31, quilt.py 19-31) and resolve_mojang_version
\* (minecraft.py 11-29) against the upstream listing of Minecraft versions
resolve_mc_version(requested) ==
    IF requested = "latest" THEN Returned(LatestMc)
    ELSE IF requested \notin McListed THEN Raised("VersionResolutionError")
    ELSE Returned(requested)

\* VanillaProvider.install (vanilla.py 14-31)
vanilla_install(req) ==
    LET mc == resolve_mc_version(req.minecraft_version)
    IN  IF mc.kind = "raise" THEN Outcome(mc, <<"get_json">>)
        ELSE Outcome(Returned(Installed(mc.value, None, None)),
                     <<"get_json", "get_json", "download">>)

\* PaperFamilyProvider.install (paper_family.py 59-83)
paper_install(req) ==
    LET mc == resolve_mc_version(req.minecraft_version)
        build == resolve_build(req.build, UpstreamBuilds)
    IN  IF mc.kind = "raise" THEN Outcome(mc, <<"get_json">>)
        ELSE IF build.kind = "raise" THEN Outcome(build, <<"get_json", "get_json">>)
        ELSE Outcome(Returned(Installed(mc.value, None,
                                        Some(py_str(PyInt(build.value.build))))),
                     <<"get_json", "get_json", "download">>)

\* PurpurProvider.install (purpur.py 31-53); found tells whether the
\* server answers the request for the info of a build it does not list.
purpur_install(req, found) ==
    LET mc == resolve_mc_version(req.minecraft_version)
        build == IF req.build # None THEN req.build[1] ELSE PurpurLatestBuild
    IN  IF mc.kind = "raise" THEN Outcome(mc, <<"get_json">>)
        ELSE IF ~found /\ \A i \in 1..Len(UpstreamBuilds) : UpstreamBuilds[i].build # build
        THEN Outcome(Raised("DownloadError"), <<"get_json", "get_json", "get_json">>)
        ELSE Outcome(Returned(Installed(mc.value, None, Some(py_str(PyInt(build))))),
                     <<"get_json", "get_json", "get_json", "download">>)

\* _resolve_loader_version (fabric.py 33-50, quilt.py 33-47)
resolve_loader_version(req) ==
    IF req.loader_version # None
    THEN (IF \E i \in 1..Len(UpstreamLoaders) :
                 UpstreamLoaders[i].version = req.loader_version[1]
          THEN Returned(req.loader_version[1])
          ELSE Raised("VersionResolutionError"))
    ELSE Returned(UpstreamLoaders[1].version)

\* FabricProvider.install, QuiltProvider.install (fabric.py 59-66,
\* quilt.py 56-62)
fabric_install(req) ==
    LET mc == resolve_mc_version(req.minecraft_version)
        lv == resolve_loader_version(req)
    IN  IF mc.kind = "raise" THEN Outcome(mc, <<"get_json">>)
        ELSE IF lv.kind = "raise" THEN Outcome(lv, <<"get_json", "get_json">>)
        ELSE Outcome(Returned(Installed(mc.value, Some(lv.value), Some(InstallerVersion))),
                     <<"get_json", "get_json", "get_json", "download">>)

\* ForgeProvider.install (forge.py 64-76, 95, 102-105)
forge_install(req) ==
    LET v == resolve_forge_version(req, UpstreamForge, UpstreamRelease)
    IN  IF v.kind = "raise" THEN Outcome(v, <<"get_text">>)
        ELSE Outcome(Returned(Installed(v.value.mc, Some(v.value), None)),
                     <<"get_text", "download">>)

\* _resolve_neoforge_version with "latest" taken from the whole listing
resolve_neoforge_version_any_latest(req, versions) ==
    IF req.loader_version # None
    THEN (IF req.loader_version[1] \notin versions
          THEN Raised("VersionResolutionError")
          ELSE Returned(req.loader_version[1]))
    ELSE IF req.minecraft_version = "latest"
    THEN pick_latest_version(versions, FALSE)
    ELSE LET matching == {v \in versions : v.mc = req.minecraft_version}
             stable_matching == {v \in matching : is_stable_version(v)}
         IN  IF matching = {} THEN Raised("VersionResolutionError")
             ELSE pick_latest_version(IF stable_matching # {}
                                      THEN stable_matching ELSE matching, FALSE)

\* _resolve_neoforge_version (neoforge.py 35-58); a NeoForge version
\* "21.1.n" is the record of the Minecraft version "1.21.1" it starts
\* with, its number and its marker.
resolve_neoforge_version(req, versions) ==
    IF req.loader_version # None
    THEN (IF req.loader_version[1] \notin versions
          THEN Raised("VersionResolutionError")
          ELSE Returned(req.loader_version[1]))
    ELSE LET stable_versions == {v \in versions : is_stable_version(v)}
         IN  IF req.minecraft_version = "latest"
             THEN pick_latest_version(IF stable_versions # {} THEN stable_versions
                                      ELSE versions, FALSE)
             ELSE LET matching == {v \in versions : v.mc = req.minecraft_version}
                      stable_matching == {v \in matching : is_stable_version(v)}
                  IN  IF matching = {} THEN Raised("VersionResolutionError")
                      ELSE pick_latest_version(IF stable_matching # {}
                                               THEN stable_matching ELSE matching, FALSE)

\* NeoForgeProvider.install and _guess_mc_version (neoforge.py 60-75, 106)
neoforge_install(req) ==
    LET v == resolve_neoforge_version(req, UpstreamForge)
        guessed_mc == IF req.minecraft_version # "latest" THEN req.minecraft_version
                      ELSE v.value.mc
    IN  IF v.kind = "raise" THEN Outcome(v, <<"get_text">>)
        ELSE Outcome(Returned(Installed(guessed_mc, Some(v.value), None)),
                     <<"get_text", "download">>)

\* The provider registry (providers/__init__.py 13-24)
provider_install_versions(req, found) ==
    IF req.loader = "vanilla" THEN vanilla_install(req)
    ELSE IF req.loader \in {"paper", "folia"} THEN paper_install(req)
    ELSE IF req.loader = "purpur" THEN purpur_install(req, found)
    ELSE IF req.loader \in {"fabric", "quilt"} THEN fabric_install(req)
    ELSE IF req.loader = "forge" THEN forge_install(req)
    ELSE neoforge_install(req)

\* The requests of the model: for every loader, "latest" or an explicit
\* Minecraft version, listed or not, and on the axis the loader has, no
\* value or an explicit one, listed or not.
McInputs == {"latest", "1.20.1", "1.21.1", "9.9"}
VersionRequests ==
    [loader : {"vanilla"}, minecraft_version : McInputs,
     loader_version : {None}, build : {None}]
    \cup [loader : {"paper", "folia", "purpur"}, minecraft_version : McInputs,
          loader_version : {None}, build : RequestedBuilds]
    \cup [loader : {"fabric", "quilt"}, minecraft_version : McInputs,
          loader_version : {None, Some("0.15"), Some("0.0")}, build : {None}]
    \cup [loader : {"forge", "neoforge"}, minecraft_version : McInputs,
          loader_version : {None, Some([mc |-> "1.20.1", n |-> 1, tag |-> ""]),
                            Some(AbsentForge)},
          build : {None}]

versions_call(found) ==
    /\ callArgs # None
    /\ callResult.kind = "none"
    /\ LET o == provider_install_versions(callArgs[1], found)
       IN  /\ callResult' = o.result
           /\ callEffects' = o.effects
    /\ UNCHANGED callArgs
    /\ UNCHANGED <<procVars, logVars, dlVars, startVars, instVars, guiVars>>

VersionsNext == \E found \in BOOLEAN : versions_call(found)

InitVersions ==
    /\ ProcInit /\ LogIdle /\ DlIdle /\ GuiIdle /\ StartIdle /\ InstIdle
    /\ callArgs \in {Some(r) : r \in VersionRequests}
    /\ callResult = NoCall
    /\ callEffects = <<>>

SpecVersions == InitVersions /\ [][VersionsNext]_vars

VersionsResolved == callArgs # None /\ callResult.kind # "none"

\* The explicit value of a request that the upstream does not list
AbsentMc(r) == r.minecraft_version \notin McListed \cup {"latest"}
AbsentLoaderVersion(r) ==
    /\ r.loader_version # None
    /\ IF r.loader \in {"fabric", "quilt"}
       THEN \A i \in 1..Len(UpstreamLoaders) :
                UpstreamLoaders[i].version # r.loader_version[1]
       ELSE r.loader_version[1] \notin UpstreamForge
AbsentBuild(r) ==
    /\ r.build # None
    /\ \A i \in 1..Len(UpstreamBuilds) : UpstreamBuilds[i].build # r.build[1]

\* C17: for every provider, an explicit Minecraft version, loader version
\* or build that the upstream does not list makes install fail with
\* VersionResolutionError before anything is downloaded, and an explicit
\* value that is listed is the one installed.
C17_ExplicitVersionsValidated ==
    VersionsResolved =>
        LET r == callArgs[1]
        IN  IF AbsentMc(r) \/ AbsentLoaderVersion(r) \/ AbsentBuild(r)
            THEN /\ callResult = Raised("VersionResolutionError")
                 /\ \A i \in 1..Len(callEffects) : callEffects[i] # "download"
            ELSE /\ callResult.kind = "return"
                 /\ r.minecraft_version # "latest" =>
                        callResult.value.minecraft_version = r.minecraft_version
                 /\ r.loader_version # None =>
                        callResult.value.loader_version = r.loader_version
                 /\ r.build # None =>
                        callResult.value.build = Some(py_str(PyInt(r.build[1])))

\* C29: the manifest of every successful NeoForge install names a concrete
\* Minecraft version, never "latest", and it is the version "1.<major>.<minor>"
\* that the first two components of the resolved loader version stand for,
\* whether the request named a Minecraft version or "latest", with or
\* without an explicit loader version.
C29_NeoForgeManifestMcFromLoaderVersion ==
    (VersionsResolved /\ callArgs[1].loader = "neoforge"
        /\ callResult.kind = "return") =>
        /\ callResult.value.minecraft_version # "latest"
        /\ callResult.value.loader_version # None
        /\ callResult.value.minecraft_version =
               callResult.value.loader_version[1].mc

-----------------------------------------------------------------------------
(* NeoForgeProvider._resolve_neoforge_version over every listing           *)
(* (neoforge.py 23-58).                                                    *)

neoforge_call ==
    /\ callArgs # None
    /\ callResult.kind = "none"
    /\ callResult' = resolve_neoforge_version(callArgs[1].request, callArgs[1].versions)
    /\ UNCHANGED <<callArgs, callEffects>>
    /\ UNCHANGED <<procVars, logVars, dlVars, startVars, instVars, guiVars>>

NeoForgeNext == neoforge_call

\* _all_versions (neoforge.py 23-33) never hands over an empty listing.
InitNeoForge ==
    /\ ProcInit /\ LogIdle /\ DlIdle /\ GuiIdle /\ StartIdle /\ InstIdle
    /\ callArgs \in {Some([request |-> req, versions |-> S]) :
                        req \in ForgeRequests, S \in ForgeListings \ {{}}}
    /\ callResult = NoCall
    /\ callEffects = <<>>

SpecNeoForge == InitNeoForge /\ [][NeoForgeNext]_vars

NeoForgeLatestResolved ==
    /\ callArgs # None
    /\ callResult.kind # "none"
    /\ callArgs[1].request.loader_version = None
    /\ callArgs[1].request.minecraft_version = "latest"

\* C21: "latest" with no explicit loader version gives the highest stable
\* version by version_key whenever a listed version is stable, never a
\* pre-release then, and the highest of all versions only when none is
\* stable.
C21_NeoForgeLatestPrefersStable ==
    NeoForgeLatestResolved =>
        LET versions == callArgs[1].versions
        IN  /\ callResult.kind = "return"
            /\ IsHighest(callResult.value,
                         IF StableOf(versions) # {} THEN StableOf(versions)
                         ELSE versions)

\* C21 witness: a stable version was returned although a pre-release of
\* the listing has a higher key.
C21_Witness ==
    /\ NeoForgeLatestResolved
    /\ callResult.kind = "return"
    /\ is_stable_version(callResult.value)
    /\ \E w \in callArgs[1].versions :
          /\ ~is_stable_version(w)
          /\ KeyLess(version_key(callResult.value), version_key(w))

-----------------------------------------------------------------------------
(* VersionCatalog (catalog.py 22-209).                                     *)
(*                                                                         *)
(* A version string is the sequence of its lexemes: a run of digits        *)
(* PyInt(n), a run of other characters PyStr(s), and the separators Dot    *)
(* and Dash; the empty string is <<>>.                                     *)

MaxEntries == 2     \* entries of an upstream listing

Dot == [sep |-> "."]
Dash == [sep |-> "-"]
IsSep(x) == DOMAIN x = {"sep"}
IsText(x) == DOMAIN x = {"str"}
V2(a, b) == <<PyInt(a), Dot, PyInt(b)>>
V3(a, b, c) == <<PyInt(a), Dot, PyInt(b), Dot, PyInt(c)>>
Beta == <<Dash, PyStr("beta")>>

\* The version strings an upstream listing can hold: "21.1.2",
\* "21.10.4-beta", "21.1-beta", "1.21.1-52", "1.21.1-53-beta", "1.20.1",
\* "beta.1" and "".
VersionStrings ==
    {V3(21, 1, 2), V3(21, 10, 4) \o Beta, V2(21, 1) \o Beta,
     V3(1, 21, 1) \o <<Dash, PyInt(52)>>, V3(1, 21, 1) \o <<Dash, PyInt(53)>> \o Beta,
     V3(1, 20, 1), <<PyStr("beta"), Dot, PyInt(1)>>, <<>>}

\* is_stable_version on a version string: none of its lexemes is a
\* pre-release marker
is_stable_string(v) ==
    \A i \in 1..Len(v) :
        IsText(v[i]) => v[i].str \notin {"alpha", "beta", "rc", "pre", "snapshot"}

\* str.split(sep): the parts of v between the lexemes sep
RECURSIVE Split(_, _)
Split(v, sep) ==
    IF \A i \in 1..Len(v) : v[i] # sep THEN <<v>>
    ELSE LET k == CHOOSE i \in 1..Len(v) :
                     v[i] = sep /\ \A j \in 1..(i - 1) : v[j] # sep
         IN  <<SubSeq(v, 1, k - 1)>> \o Split(SubSeq(v, k + 1, Len(v)), sep)

\* str.isdigit()
isdigit(part) == Len(part) = 1 /\ IsInt(part[1])

\* version_key of a version string: its dot/hyphen-delimited components
RECURSIVE Components(_)
Components(v) ==
    IF \A i \in 1..Len(v) : ~IsSep(v[i]) THEN <<v>>
    ELSE LET k == CHOOSE i \in 1..Len(v) :
                     IsSep(v[i]) /\ \A j \in 1..(i - 1) : ~IsSep(v[j])
         IN  <<SubSeq(v, 1, k - 1)>> \o Components(SubSeq(v, k + 1, Len(v)))

\* The order of two components: numeric when both are numbers, as text
\* otherwise (a numeral sorts before a word).
ComponentLess(a, b) ==
    IF isdigit(a) /\ isdigit(b) THEN a[1].int < b[1].int
    ELSE isdigit(a) /\ ~isdigit(b)

RECURSIVE ComponentsLess(_, _)
ComponentsLess(a, b) ==
    IF b = <<>> THEN FALSE
    ELSE IF a = <<>> THEN TRUE
    ELSE IF a[1] # b[1] THEN ComponentLess(a[1], b[1])
    ELSE ComponentsLess(Tail(a), Tail(b))

StringKeyLess(v, w) == ComponentsLess(Components(v), Components(w))

\* _sorted_desc (catalog.py 71-73): the distinct non-empty values, highest
\* key first
RECURSIVE SortDesc(_)
SortDesc(S) ==
    IF S = {} THEN <<>>
    ELSE LET top == CHOOSE v \in S : \A w \in S : w = v \/ StringKeyLess(w, v)
         IN  <<top>> \o SortDesc(S \ {top})
sorted_desc(values) ==
    SortDesc({values[i] : i \in {j \in 1..Len(values) : values[j] # <<>>}})

\* values[:limit]
Slice(values, limit) ==
    IF limit >= 0
    THEN SubSeq(values, 1, IF limit < Len(values) THEN limit ELSE Len(values))
    ELSE SubSeq(values, 1, Len(values) + limit)

\* _map_neoforge_to_mc (catalog.py 201-209)
map_neoforge_to_mc_unchecked(v) ==
    LET parts == Split(v, Dot)
    IN  IF Len(parts) < 2 THEN None
        ELSE Some(<<PyInt(1), Dot>> \o parts[1] \o <<Dot>> \o parts[2])
map_neoforge_to_mc(v) ==
    LET parts == Split(v, Dot)
    IN  IF Len(parts) < 2 THEN None
        ELSE IF ~isdigit(parts[1]) \/ ~isdigit(parts[2]) THEN None
        ELSE Some(<<PyInt(1), Dot>> \o parts[1] \o <<Dot>> \o parts[2])

\* The values of a listing that pass a test, in the listing's order
Collect(entries, Keep(_), Value(_)) ==
    LET Kept(i) == Keep(entries[i])
        kept == SelectSeq([i \in 1..Len(entries) |-> i], Kept)
    IN  [k \in 1..Len(kept) |-> Value(entries[kept[k]])]

\* _vanilla_versions, _fabric_versions, _quilt_versions (catalog.py
\* 75-85, 95-117) and _fabric_loader_versions (159-170): the upstream
\* marks each entry stable or not
flagged_versions(entries, stable_only) ==
    LET Keep(e) == e.version # <<>> /\ (stable_only => e.stable)
        Value(e) == e.version
    IN  Collect(entries, Keep, Value)

\* _paper_family_versions, _purpur_versions (catalog.py 87-93) and
\* _quilt_loader_versions (172-180)
plain_versions(entries) ==
    LET Keep(e) == TRUE
        Value(e) == e.version
    IN  Collect(entries, Keep, Value)

\* _forge_mc_versions (catalog.py 137-146)
forge_mc_versions(entries, stable_only) ==
    LET Keep(e) == /\ e.version # <<>>
                   /\ stable_only => is_stable_string(e.version)
                   /\ \E i \in 1..Len(e.version) : e.version[i] = Dash
        Value(e) == Split(e.version, Dash)[1]
    IN  Collect(entries, Keep, Value)

\* _neoforge_mc_versions (catalog.py 148-157)
neoforge_mc_versions(entries, stable_only) ==
    LET Keep(e) == /\ e.version # <<>>
                   /\ stable_only => is_stable_string(e.version)
                   /\ map_neoforge_to_mc(e.version) # None
        Value(e) == map_neoforge_to_mc(e.version)[1]
    IN  Collect(entries, Keep, Value)

\* _forge_versions_for_mc (catalog.py 182-188)
forge_versions_for_mc(entries, minecraft_version, stable_only) ==
    LET prefix == minecraft_version \o <<Dash>>
        Keep(e) == /\ Len(e.version) >= Len(prefix)
                   /\ SubSeq(e.version, 1, Len(prefix)) = prefix
                   /\ stable_only => is_stable_string(e.version)
        Value(e) == e.version
    IN  Collect(entries, Keep, Value)

\* _neoforge_versions_for_mc (catalog.py 190-199)
neoforge_versions_for_mc(entries, minecraft_version, stable_only) ==
    LET Keep(e) == /\ e.version # <<>>
                   /\ stable_only => is_stable_string(e.version)
                   /\ map_neoforge_to_mc(e.version) = Some(minecraft_version)
        Value(e) == e.version
    IN  Collect(entries, Keep, Value)

\* list_minecraft_versions (catalog.py 22-42)
list_minecraft_versions_unsorted(loader, stable_only, limit, entries) ==
    LET loader_id == normalize_loader(loader)
    IN  IF loader_id = None THEN Raised("UnsupportedLoaderError")
        ELSE Returned(Slice(plain_versions(entries), limit))
list_minecraft_versions(loader, stable_only, limit, entries) ==
    LET loader_id == normalize_loader(loader)
        versions ==
            IF loader_id[1] \in {"vanilla", "fabric", "quilt"}
            THEN flagged_versions(entries, stable_only)
            ELSE IF loader_id[1] \in {"paper", "folia", "purpur"}
            THEN plain_versions(entries)
            ELSE IF loader_id[1] = "forge" THEN forge_mc_versions(entries, stable_only)
            ELSE neoforge_mc_versions(entries, stable_only)
    IN  IF loader_id = None THEN Raised("UnsupportedLoaderError")
        ELSE Returned(Slice(sorted_desc(versions), limit))

\* list_loader_versions (catalog.py 44-69)
list_loader_versions(loader, minecraft_version, stable_only, limit, entries) ==
    LET loader_id == normalize_loader(loader)
        versions ==
            IF loader_id[1] = "fabric" THEN flagged_versions(entries, stable_only)
            ELSE IF loader_id[1] = "quilt" THEN plain_versions(entries)
            ELSE IF loader_id[1] = "forge"
            THEN forge_versions_for_mc(entries, minecraft_version, stable_only)
            ELSE IF loader_id[1] = "neoforge"
            THEN neoforge_versions_for_mc(entries, minecraft_version, stable_only)
            ELSE <<>>
    IN  IF loader_id = None THEN Raised("UnsupportedLoaderError")
        ELSE Returned(Slice(sorted_desc(versions), limit))

\* The entries of a listing: a version string and the upstream's own
\* stable mark (read by the vanilla, Fabric and Quilt listings only).
CatalogEntries ==
    {[version |-> v, stable |-> is_stable_string(v)] : v \in VersionStrings}
    \cup {[version |-> V3(1, 20, 1), stable |-> FALSE]}

CatalogCalls ==
    [op : {"minecraft"}, loader : LoaderInputs, minecraft_version : {V3(1, 21, 1)},
     stable_only : BOOLEAN, limit : {-1, 0, 1, 200},
     entries : SeqsUpTo(CatalogEntries, MaxEntries)]
    \cup [op : {"loader"}, loader : LoaderInputs,
          minecraft_version : {V3(1, 21, 1), V2(21, 1)},
          stable_only : BOOLEAN, limit : {-1, 0, 1, 200},
          entries : SeqsUpTo(CatalogEntries, MaxEntries)]

catalog_call ==
    /\ callArgs # None
    /\ callResult.kind = "none"
    /\ LET a == callArgs[1]
       IN  callResult' =
               IF a.op = "minecraft"
               THEN list_minecraft_versions(a.loader, a.stable_only, a.limit, a.entries)
               ELSE list_loader_versions(a.loader, a.minecraft_version, a.stable_only,
                                         a.limit, a.entries)
    /\ UNCHANGED <<callArgs, callEffects>>
    /\ UNCHANGED <<procVars, logVars, dlVars, startVars, instVars, guiVars>>

CatalogNext == catalog_call

InitCatalog ==
    /\ ProcInit /\ LogIdle /\ DlIdle /\ GuiIdle /\ StartIdle /\ InstIdle
    /\ callArgs \in {Some(c) : c \in CatalogCalls}
    /\ callResult = NoCall
    /\ callEffects = <<>>

SpecCatalog == InitCatalog /\ [][CatalogNext]_vars

CatalogListed(op, loader) ==
    /\ callArgs # None
    /\ callResult.kind = "return"
    /\ callArgs[1].op = op
    /\ normalize_loader(callArgs[1].loader) = Some(loader)

ElementsOf(seq) == {seq[i] : i \in 1..Len(seq)}

\* "1.<major>.<minor>" for a version string whose first two dot-separated
\* components are numbers, nothing otherwise
NeoForgeMinecraft(v) ==
    IF /\ Len(v) >= 3
       /\ IsInt(v[1]) /\ v[2] = Dot /\ IsInt(v[3])
       /\ (Len(v) = 3 \/ v[4] = Dot)
    THEN {V3(1, v[1].int, v[3].int)}
    ELSE {}

\* C22: with the default limit, list_minecraft_versions for NeoForge holds
\* exactly the versions "1.<major>.<minor>" of the entries whose first two
\* components are numeric, of the stable ones only when stable_only is
\* set.
C22_NeoForgeCatalogMapping ==
    (CatalogListed("minecraft", "neoforge") /\ callArgs[1].limit = 200) =>
        ElementsOf(callResult.value) =
            UNION {NeoForgeMinecraft(e.version) :
                      e \in {x \in ElementsOf(callArgs[1].entries) :
                                callArgs[1].stable_only => is_stable_string(x.version)}}

\* C22 witness: with stable_only set, a listing of "21.10.4-beta" and
\* "21.1.2" gave exactly "1.21.1".
C22_Witness ==
    /\ CatalogListed("minecraft", "neoforge")
    /\ callArgs[1].stable_only
    /\ \E i \in 1..Len(callArgs[1].entries) :
          callArgs[1].entries[i].version = V3(21, 10, 4) \o Beta
    /\ callResult.value = <<V3(1, 21, 1)>>

CatalogReturned ==
    /\ callArgs # None
    /\ callResult.kind = "return"
    /\ callArgs[1].limit >= 0

\* No duplicates, no empty entry, strictly descending keys, at most limit
\* entries
SortedUniqueWithin(list, limit) ==
    /\ \A i \in 1..Len(list) : list[i] # <<>>
    /\ \A i, j \in 1..Len(list) : i < j => StringKeyLess(list[j], list[i])
    /\ \A i, j \in 1..Len(list) : i # j => list[i] # list[j]
    /\ Len(list) <= limit

\* "<mc>" of a version string "<mc>-<loader>"
BeforeFirstDash(v) ==
    SubSeq(v, 1, (CHOOSE k \in 1..Len(v) :
                     v[k] = Dash /\ \A j \in 1..(k - 1) : v[j] # Dash) - 1)

\* What the entries "<mc>-<loader>" of a listing contribute for Forge
ForgeContributed(entries) ==
    {BeforeFirstDash(e.version) :
        e \in {x \in entries : \E k \in 1..Len(x.version) : x.version[k] = Dash}}
    \ {<<>>}

\* The list holds contributed values only, and all of them unless cut at
\* the limit.
ListsContributed(list, limit, contributed) ==
    /\ ElementsOf(list) \subseteq contributed
    /\ Len(list) < limit => ElementsOf(list) = contributed

\* C24 (as written): for every loader and listing and every limit >= 0,
\* both listings are free of duplicates and empty entries, strictly
\* descending by version_key and at most limit long; for Forge, each
\* metadata entry "<mc>-<loader>" contributes "<mc>".
C24_CatalogSortedEveryForgeEntry ==
    CatalogReturned =>
        /\ SortedUniqueWithin(callResult.value, callArgs[1].limit)
        /\ CatalogListed("minecraft", "forge") =>
               ListsContributed(callResult.value, callArgs[1].limit,
                                ForgeContributed(ElementsOf(callArgs[1].entries)))

\* C24 (amended): for every loader and listing and every limit >= 0, both
\* listings are free of duplicates and empty entries, strictly descending
\* by version_key and at most limit long; for Forge, each metadata entry
\* "<mc>-<loader>" (each stable one when stable_only is set) contributes
\* "<mc>".
C24_CatalogSortedStableForgeEntry ==
    CatalogReturned =>
        /\ SortedUniqueWithin(callResult.value, callArgs[1].limit)
        /\ CatalogListed("minecraft", "forge") =>
               ListsContributed(callResult.value, callArgs[1].limit,
                   ForgeContributed({e \in ElementsOf(callArgs[1].entries) :
                       callArgs[1].stable_only => is_stable_string(e.version)}))

\* C24 witness: the Forge listing "1.21.1-52", "21.10.4-beta" without
\* stable_only came back as "21.10.4", "1.21.1".
C24_Witness ==
    /\ CatalogListed("minecraft", "forge")
    /\ ~callArgs[1].stable_only
    /\ Len(callArgs[1].entries) = 2
    /\ callArgs[1].entries[1].version = V3(1, 21, 1) \o <<Dash, PyInt(52)>>
    /\ callResult.value = <<V3(21, 10, 4), V3(1, 21, 1)>>

-----------------------------------------------------------------------------
(* FabricProvider._resolve_loader_version (fabric.py 33-50) and            *)
(* QuiltProvider._resolve_loader_version (quilt.py 33-47) over every       *)
(* loader listing.                                                         *)

MaxLoaderEntries == 2   \* entries of a loader listing

LoaderEntries == [version : {"0.15", "0.16"}, stable : BOOLEAN]

\* The explicit branch of both (fabric.py 37-44, quilt.py 37-44)
ExplicitLoaderVersion(loader_version, versions) ==
    IF \E i \in 1..Len(versions) : versions[i].version = loader_version
    THEN Returned(loader_version)
    ELSE Raised("VersionResolutionError")

IsStableEntry(e) == e.stable

fabric_resolve_loader_version(req, versions) ==
    IF req.loader_version # None
    THEN ExplicitLoaderVersion(req.loader_version[1], versions)
    ELSE LET stable == SelectSeq(versions, IsStableEntry)
         IN  IF stable # <<>> THEN Returned(stable[1].version)
             ELSE IF versions # <<>> THEN Returned(versions[1].version)
             ELSE Raised("VersionResolutionError")

quilt_resolve_loader_version(req, versions) ==
    IF req.loader_version # None
    THEN ExplicitLoaderVersion(req.loader_version[1], versions)
    ELSE IF versions = <<>> THEN Raised("VersionResolutionError")
    ELSE Returned(versions[1].version)

loader_version_call ==
    /\ callArgs # None
    /\ callResult.kind = "none"
    /\ LET a == callArgs[1]
       IN  callResult' = IF a.request.loader = "fabric"
                         THEN fabric_resolve_loader_version(a.request, a.versions)
                         ELSE quilt_resolve_loader_version(a.request, a.versions)
    /\ UNCHANGED <<callArgs, callEffects>>
    /\ UNCHANGED <<procVars, logVars, dlVars, startVars, instVars, guiVars>>

LoadersNext == loader_version_call

InitLoaders ==
    /\ ProcInit /\ LogIdle /\ DlIdle /\ GuiIdle /\ StartIdle /\ InstIdle
    /\ callArgs \in {Some([request |-> [loader |-> l, loader_version |-> lv],
                           versions |-> vs]) :
                        l \in {"fabric", "quilt"},
                        lv \in {None, Some("0.15"), Some("0.0")},
                        vs \in SeqsUpTo(LoaderEntries, MaxLoaderEntries)}
    /\ callResult = NoCall
    /\ callEffects = <<>>

SpecLoaders == InitLoaders /\ [][LoadersNext]_vars

\* C23: with no explicit loader version, Fabric and Quilt both return the
\* first entry of the listing that the upstream marks stable; Fabric
\* returns the first entry when none is stable; both raise
\* VersionResolutionError on an empty listing.
C23_FirstStableLoaderEntry ==
    (callArgs # None /\ callResult.kind # "none"
       /\ callArgs[1].request.loader_version = None) =>
        LET versions == callArgs[1].versions
            stable == {i \in 1..Len(versions) : versions[i].stable}
        IN  IF versions = <<>> THEN callResult = Raised("VersionResolutionError")
            ELSE IF stable # {}
            THEN callResult =
                     Returned(versions[CHOOSE i \in stable :
                                           \A j \in stable : i <= j].version)
            ELSE callArgs[1].request.loader = "fabric" =>
                     callResult = Returned(versions[1].version)

-----------------------------------------------------------------------------
(* pick_latest_version over every version list, as                         *)
(* PaperFamilyProvider._resolve_mc_version calls it (paper_family.py 26).  *)

pick_call ==
    /\ callArgs # None
    /\ callResult.kind = "none"
    /\ callResult' = pick_latest_version(callArgs[1].values, callArgs[1].stable_only)
    /\ UNCHANGED <<callArgs, callEffects>>
    /\ UNCHANGED <<procVars, logVars, dlVars, startVars, instVars, guiVars>>

PickNext == pick_call

InitPick ==
    /\ ProcInit /\ LogIdle /\ DlIdle /\ GuiIdle /\ StartIdle /\ InstIdle
    /\ callArgs \in {Some([values |-> S, stable_only |-> b]) :
                        S \in ForgeListings, b \in BOOLEAN}
    /\ callResult = NoCall
    /\ callEffects = <<>>

SpecPick == InitPick /\ [][PickNext]_vars

\* C25: with stable_only, pick_latest_version returns the highest stable
\* value by version_key when a value is stable and the highest value
\* otherwise, always a value of the list, and raises
\* VersionResolutionError on an empty list.
C25_PickLatestPrefersStable ==
    (callArgs # None /\ callResult.kind # "none" /\ callArgs[1].stable_only) =>
        LET values == callArgs[1].values
        IN  IF values = {} THEN callResult = Raised("VersionResolutionError")
            ELSE /\ callResult.kind = "return"
                 /\ callResult.value \in values
                 /\ IsHighest(callResult.value,
                              IF StableOf(values) # {} THEN StableOf(values)
                              ELSE values)

\* C25 witness: with stable_only, a stable value was returned from a list
\* that holds a pre-release with a higher key.
C25_Witness ==
    /\ callArgs # None
    /\ callArgs[1].stable_only
    /\ callResult.kind = "return"
    /\ is_stable_version(callResult.value)
    /\ \E w \in callArgs[1].values :
          ~is_stable_version(w) /\ KeyLess(version_key(callResult.value), version_key(w))

-----------------------------------------------------------------------------
(* ServerProcess._pump_stdout (process.py 54-61) beside the child          *)
(* process: the child writes lines and exits, the reader thread takes      *)
(* them from the pipe, appends each to the buffer (line 59) and then       *)
(* calls the log handler with it (lines 60-61).  The handler is the        *)
(* caller's: it returns or raises.                                         *)

MaxWritten == 4     \* lines the child writes

\* The child writes one more line to its output.
child_writes ==
    /\ callArgs # None
    /\ returncode = None
    /\ callArgs[1].output < MaxWritten
    /\ callArgs' = Some([callArgs[1] EXCEPT !.output = @ + 1])
    /\ UNCHANGED <<callResult, callEffects>>
    /\ UNCHANGED <<procVars, logVars, dlVars, startVars, instVars, guiVars>>

\* Lines 57-59: the next line of the stream is stripped and appended.
pump_append ==
    /\ callArgs # None
    /\ reader = "running"
    /\ linesRead < callArgs[1].output
    /\ linesRead' = linesRead + 1
    /\ recent_lines' = DequeAppend(recent_lines, rstrip(RawLine(linesRead + 1, "\n")))
    /\ reader' = IF callArgs[1].log_handler THEN "forwarding" ELSE "running"
    /\ UNCHANGED snapshot
    /\ UNCHANGED <<procVars, dlVars, startVars, instVars, callVars, guiVars>>

\* Lines 60-61: the handler is called with the line; an exception of the
\* handler ends the thread.
pump_forward(handlerOk) ==
    /\ reader = "forwarding"
    /\ callEffects' = Append(callEffects, rstrip(RawLine(linesRead, "\n")))
    /\ reader' = IF handlerOk THEN "running" ELSE "crashed"
    /\ UNCHANGED <<recent_lines, linesRead, snapshot, callArgs, callResult>>
    /\ UNCHANGED <<procVars, dlVars, startVars, instVars, guiVars>>

\* Line 57: the stream ends once the child has exited and every line has
\* been taken.
pump_end_of_stream ==
    /\ callArgs # None
    /\ reader = "running"
    /\ returncode # None
    /\ linesRead = callArgs[1].output
    /\ reader' = "finished"
    /\ UNCHANGED <<recent_lines, linesRead, snapshot>>
    /\ UNCHANGED <<procVars, dlVars, startVars, instVars, callVars, guiVars>>

PumpNext ==
    \/ child_writes
    \/ ProcessExits
    \/ pump_append
    \/ \E handlerOk \in BOOLEAN : pump_forward(handlerOk)
    \/ pump_end_of_stream

InitPump ==
    /\ ProcInit /\ LogIdle /\ DlIdle /\ GuiIdle /\ StartIdle /\ InstIdle
    /\ callArgs \in {Some([log_handler |-> h, output |-> 0]) : h \in BOOLEAN}
    /\ callResult = NoCall
    /\ callEffects = <<>>

\* The reader thread is a thread of its own (process.py 26-31): it is
\* scheduled whenever it can take a step, and the handler ends.
SpecPump ==
    /\ InitPump /\ [][PumpNext]_vars
    /\ WF_vars(pump_append)
    /\ WF_vars(\E handlerOk \in BOOLEAN : pump_forward(handlerOk))
    /\ WF_vars(pump_end_of_stream)

\* The text of the lines 1..n, in the order the child wrote them
LinesUpTo(n) == [i \in 1..n |-> rstrip(RawLine(i, "\n"))]

\* Every line taken is in the buffer once and in order, and the handler
\* has been given a prefix of the buffer.
PumpedInOrder ==
    /\ recent_lines = LinesUpTo(linesRead)
    /\ Len(callEffects) <= linesRead
    /\ callEffects = LinesUpTo(Len(callEffects))
    /\ (callArgs # None /\ callArgs[1].log_handler /\ reader = "running") =>
           Len(callEffects) = linesRead

\* C26: the reader handles every line exactly once and in the order
\* written, appending it to the buffer before it hands it to the log
\* handler, and every line the child has written is eventually in the
\* buffer.
C26_EveryLineBufferedThenForwarded ==
    /\ []PumpedInOrder
    /\ \A n \in 1..MaxWritten :
           (callArgs # None /\ callArgs[1].output >= n) ~> (linesRead >= n)


-----------------------------------------------------------------------------
(* LauncherApp (gui_launcher.py): the buttons, the worker threads of        *)
(* _run_background_task, the queue the workers report through, and the     *)
(* server processes the Start task spawns.  The Tk event loop runs one      *)
(* handler at a time; a worker thread and a server process run beside it.  *)
(* A worker thread is alive from Thread.start until _runner has returned,  *)
(* which is after it has put its event on the queue.  "log" events only    *)
(* change the log widget and are left out.                                 *)

MaxTasks == 4       \* worker threads started per behaviour

\* Thread.is_alive() of the thread with this id
is_alive(id) == \E t \in threads : t.id = id

\* bool(self._server_process and self._server_process.is_running())
process_running(process) == process # None /\ process[1] \in live

\* _update_runtime_controls (gui_launcher.py 1008-1018)
update_runtime_controls(busy, running, b) ==
    [b EXCEPT !.start = IF busy \/ running THEN "disabled" ELSE "normal",
              !.install = IF busy \/ running THEN "disabled" ELSE "normal",
              !.stop = IF running /\ ~busy THEN "normal" ELSE "disabled"]

\* _set_controls_enabled (gui_launcher.py 985-1006): the buttons it leaves
set_controls_enabled(enabled, running, b) ==
    update_runtime_controls(~enabled, running,
        [b EXCEPT !.refresh = IF enabled THEN "normal" ELSE "disabled"])

run_background_task_unguarded(task_name, target) ==
    /\ started < MaxTasks
    /\ started' = started + 1
    /\ threads' = threads \cup {[id |-> started + 1, task |-> task_name,
                                 target |-> target, phase |-> "running"]}
    /\ worker' = Some(started + 1)
    /\ controls_busy' = TRUE
    /\ buttons' = set_controls_enabled(FALSE, process_running(server_process),
                                       buttons)
    /\ status' = "Running"

\* _run_background_task (gui_launcher.py 1044-1062)
run_background_task(task_name, target) ==
    /\ started < MaxTasks
    /\ IF worker # None /\ is_alive(worker[1])
       THEN /\ status' = "Another task is already running."
            /\ UNCHANGED <<threads, started, worker, controls_busy, buttons>>
       ELSE /\ started' = started + 1
            /\ threads' = threads \cup {[id |-> started + 1, task |-> task_name,
                                         target |-> target, phase |-> "running"]}
            /\ worker' = Some(started + 1)
            /\ controls_busy' = TRUE
            /\ buttons' = set_controls_enabled(FALSE,
                              process_running(server_process), buttons)
            /\ status' = "Running"

\* A handler that ends with a status text and nothing else.
OnlyStatus(text) ==
    /\ status' = text
    /\ UNCHANGED <<threads, started, worker, controls_busy, buttons>>

\* The Refresh button: _refresh_versions (gui_launcher.py 908-913)
refresh_versions ==
    /\ buttons.refresh = "normal"
    /\ run_background_task("refresh_versions", None)
    /\ UNCHANGED <<ui_queue, server_process, live>>
    /\ UNCHANGED <<procVars, logVars, dlVars, startVars, instVars, callVars>>

\* The Install button: _install (gui_launcher.py 929-951)
gui_install(storage) ==
    /\ buttons.install = "normal"
    /\ IF ~storage THEN OnlyStatus("Install cancelled")
       ELSE run_background_task("install", None)
    /\ UNCHANGED <<ui_queue, server_process, live>>
    /\ UNCHANGED <<procVars, logVars, dlVars, startVars, instVars, callVars>>

\* The Start button: _start (gui_launcher.py 953-976)
gui_start(storage) ==
    /\ buttons.start = "normal"
    /\ IF ~storage THEN OnlyStatus("Start cancelled")
       ELSE IF process_running(server_process)
            THEN OnlyStatus("Server is already running.")
            ELSE run_background_task("start", None)
    /\ UNCHANGED <<ui_queue, server_process, live>>
    /\ UNCHANGED <<procVars, logVars, dlVars, startVars, instVars, callVars>>

\* The Stop button: _stop (gui_launcher.py 978-983)
gui_stop ==
    /\ buttons.stop = "normal"
    /\ IF ~process_running(server_process)
       THEN OnlyStatus("No running server process.")
       ELSE run_background_task("stop", server_process)
    /\ UNCHANGED <<ui_queue, server_process, live>>
    /\ UNCHANGED <<procVars, logVars, dlVars, startVars, instVars, callVars>>

\* _runner up to its put (gui_launcher.py 1049-1055): the task's function
\* returns or raises.  manager.start spawns a server process; stop returns
\* once the process has exited, and raises with the process as it is.
runner(ok) ==
    \E t \in threads :
        /\ t.phase = "running"
        /\ threads' = (threads \ {t}) \cup {[t EXCEPT !.phase = "put"]}
        /\ live' = IF ~ok THEN live
                   ELSE IF t.task = "start" THEN live \cup {t.id}
                   ELSE IF t.task = "stop" THEN live \ {t.target[1]}
                   ELSE live
        /\ ui_queue' = Append(ui_queue,
               [event |-> IF ok THEN "task_done" ELSE "task_error",
                task |-> t.task,
                result |-> IF ok /\ t.task = "start" THEN Some(t.id) ELSE None])
        /\ UNCHANGED <<started, worker, controls_busy, buttons, server_process,
                       status>>
        /\ UNCHANGED <<procVars, logVars, dlVars, startVars, instVars, callVars>>

\* _runner returns and the thread ends (gui_launcher.py 1049-1058)
runner_returns ==
    \E t \in threads :
        /\ t.phase = "put"
        /\ threads' = threads \ {t}
        /\ UNCHANGED <<started, worker, ui_queue, controls_busy, buttons,
                       server_process, live, status>>
        /\ UNCHANGED <<procVars, logVars, dlVars, startVars, instVars, callVars>>

\* _handle_task_done (gui_launcher.py 1090-1143) and the task_error branch
\* of _poll_ui_queue (1080-1086), on the window state g
handle_event(g, e) ==
    LET held == IF e.event = "task_error" THEN g.server_process
                ELSE IF e.task = "start" THEN e.result
                ELSE IF e.task = "stop" THEN None
                ELSE g.server_process
    IN  [server_process |-> held,
         controls_busy |-> FALSE,
         buttons |-> set_controls_enabled(TRUE, process_running(held), g.buttons),
         status |-> IF e.event = "task_error" THEN "failed" ELSE "done"]

RECURSIVE handle_events(_, _)
handle_events(g, q) ==
    IF q = <<>> THEN g ELSE handle_events(handle_event(g, Head(q)), Tail(q))

\* _poll_ui_queue (gui_launcher.py 1064-1088): every queued event is handled
poll_ui_queue ==
    /\ ui_queue # <<>>
    /\ LET g == handle_events([server_process |-> server_process,
                               controls_busy |-> controls_busy,
                               buttons |-> buttons, status |-> status], ui_queue)
       IN  /\ server_process' = g.server_process
           /\ controls_busy' = g.controls_busy
           /\ buttons' = g.buttons
           /\ status' = g.status
    /\ ui_queue' = <<>>
    /\ UNCHANGED <<threads, started, worker, live>>
    /\ UNCHANGED <<procVars, logVars, dlVars, startVars, instVars, callVars>>

\* _poll_process_state (gui_launcher.py 1158-1166)
poll_process_state ==
    /\ server_process # None
    /\ ~process_running(server_process)
    /\ server_process' = None
    /\ status' = "Server not running."
    /\ buttons' = update_runtime_controls(controls_busy, FALSE, buttons)
    /\ UNCHANGED <<threads, started, worker, ui_queue, controls_busy, live>>
    /\ UNCHANGED <<procVars, logVars, dlVars, startVars, instVars, callVars>>

\* A server process exits, on its own or because it was told to.
server_exits ==
    \E pid \in live :
        /\ live' = live \ {pid}
        /\ UNCHANGED <<threads, started, worker, ui_queue, controls_busy, buttons,
                       server_process, status>>
        /\ UNCHANGED <<procVars, logVars, dlVars, startVars, instVars, callVars>>

GuiNext ==
    \/ refresh_versions
    \/ \E storage \in BOOLEAN : gui_install(storage)
    \/ \E storage \in BOOLEAN : gui_start(storage)
    \/ gui_stop
    \/ \E ok \in BOOLEAN : runner(ok)
    \/ runner_returns
    \/ poll_ui_queue
    \/ poll_process_state
    \/ server_exits

\* The window after __init__ (gui_launcher.py 57-100): the buttons are
\* built, then _refresh_versions starts the first worker.
InitGui ==
    /\ ProcInit /\ LogIdle /\ DlIdle /\ StartIdle /\ InstIdle /\ CallIdle
    /\ threads = {[id |-> 1, task |-> "refresh_versions", target |-> None,
                   phase |-> "running"]}
    /\ started = 1
    /\ worker = Some(1)
    /\ ui_queue = <<>>
    /\ controls_busy = TRUE
    /\ buttons = [start |-> "disabled", install |-> "disabled",
                  stop |-> "disabled", refresh |-> "disabled"]
    /\ server_process = None
    /\ live = {}
    /\ status = "Running"

SpecGui == InitGui /\ [][GuiNext]_vars

\* C30: in the launcher at most one worker thread and at most one server
\* process it started are alive at any time: a task asked for while the
\* worker is alive starts no thread, and no server process is spawned while
\* the held process is running.
C30_OneTaskOneServer ==
    /\ [](Cardinality(threads) <= 1 /\ Cardinality(live) <= 1)
    /\ [][(worker # None /\ is_alive(worker[1])) =>
              {t.id : t \in threads'} \subseteq {t.id : t \in threads}]_vars
    /\ [][process_running(server_process) => live' \subseteq live]_vars

\* C30 witness: with a server running and held, and the worker that started
\* it not yet ended, a click on Stop was refused.
C30_Witness ==
    /\ status = "Another task is already running."
    /\ Cardinality(threads) = 1
    /\ process_running(server_process)
    /\ controls_busy = FALSE

=============================================================================
